---- MODULE Spec2Model ----
(***************************************************************************)
(* A model of the Pimple dependency-injection container of src/index.js:   *)
(* the service registry (set / setShared / setRaw / get / getDefinition /  *)
(* getResolver), the Definition compilation and resolution engine          *)
(* (configure / compile / createResolver / wrap / label), the label        *)
(* registry (defineLabel / addLabel / getLabel) and the tag store          *)
(* (normalizeTag / tag / getTag / overTags / getSortedTags).               *)
(*                                                                         *)
(* Every method of the source is a pure operator over a "world" record w   *)
(* (the container's fields plus the JavaScript heap of the objects the     *)
(* model allocates); it yields a completion record                         *)
(*     [w |-> world after the call, ok |-> returned normally,              *)
(*      err |-> the error thrown, val |-> the value returned].             *)
(* One action per public operation applies the operator to the state.      *)
(***************************************************************************)
EXTENDS Integers, Sequences, FiniteSets, TLC

VARIABLES
    deepClone,      \* Pimple._deepClone
    cloneMapStack,  \* how the lodash that is installed clones the entries of a
                    \* Map in _.cloneDeep: on the stack of the clone in progress
                    \* ("shared": an object met again is not cloned again) or on
                    \* a stack of their own ("own")
    definitions,    \* Pimple._definitions : serviceId -> Definition handle (0: absent)
    labels,         \* Pimple._labels      : label name -> callback (NoCallback: absent)
    tags,           \* Pimple._tags        : tag name -> ordered map serviceId -> payloads
    accessors,      \* the ids for which setRaw defined an accessor property, in
                    \* the order the properties were created
    defs,           \* the Definition objects created so far; a handle is an index
    closures,       \* the resolve functions built by compile; a handle is an index
    heap,           \* the plain objects/arrays allocated so far; an address is an index
    hist,           \* per Definition: what its resolutions did and returned (history)
    tagHist,        \* the payloads appended by tag(), in call order (history)
    last,           \* the last operation called, its arguments and its completion
    steps           \* registry operations called so far

vars == <<deepClone, cloneMapStack, definitions, labels, tags, accessors, defs, closures, heap, hist,
          tagHist, last, steps>>

----------------------------------------------------------------------------
(* Bounds of the model *)

\* registry operations called in one run
MaxOps == 5
\* Definition objects created by set / setShared in one run
MaxDefs == 1
\* calls of get that reach a Definition in one run
MaxGets == 2
\* payloads held by the tag store in one run
MaxPayloads == 3
\* frames the call stack has room for, at the least, when an operation of
\* the container is called
StackLimit == 6

----------------------------------------------------------------------------
(* Input alphabets *)

\* service ids the callers use; none of them is a reserved key
Ids == {"a", "b"}

\* service ids that are names of operations of the container.  Neither is
\* the name of a method that get, set or setRaw call on `this` internally
\* (getDefinition, setRaw, create, isReserved, getLabel).
OperationIds == {"get", "set"}

\* label names the callers use
LabelNames == {"L1", "L2"}

\* tag names the callers use
TagNames == {"t", "u"}

\* the payload field overTags sorts by in this model
SortField == "priority"

\* values of the sort field carried by payloads
FieldVals == {-1, 1}

----------------------------------------------------------------------------
(* JavaScript values *)

Undefined == [t |-> "undefined", v |-> 0]
Prim(n) == [t |-> "prim", v |-> n]
Ref(a) == [t |-> "ref", v |-> a]
DefinitionRef(d) == [t |-> "definition", v |-> d]
ResolverRef(c) == [t |-> "resolver", v |-> c]
Factory(k) == [t |-> "factory", v |-> k]
\* the container itself, as a value (the default context and argument)
Container == [t |-> "container", v |-> 0]

\* a copy of the container made by _.clone or _.cloneDeep
ContainerCopy == [t |-> "container", v |-> 1]

\* a settled call: returned normally with a value, or threw
Return(w, v) == [w |-> w, ok |-> TRUE, err |-> "", val |-> v]
Throw(w, e) == [w |-> w, ok |-> FALSE, err |-> e, val |-> Undefined]

\* statements in sequence: what follows a call, F, runs in the world the
\* call left and with its value when the call returned; a throw skips it
Bind(r, F(_, _)) == IF r.ok THEN F(r.w, r.val) ELSE r

\* the messages of the errors the source throws
ServiceNotDefined == "Service is not defined in container."
LabelNotDefined == "Pimple label callback is not defined but service is labeled wih it."
InvalidTag == "Service tags can be strings or plain objects with mandatory name field."
InvalidSortOptions == "ValidationError"
RawNotDefinition == "Raw definition should be an instance of Definition."
\* the errors the engine throws: a call of something that is no function,
\* and the exhaustion of the call stack
NotAFunction == "TypeError: is not a function"
CannotReadProperty == "TypeError: Cannot read property of undefined"
StackOverflow == "RangeError: Maximum call stack size exceeded"

----------------------------------------------------------------------------
(* The heap and the lodash helpers the source calls *)

\* a plain object or array: the values pushed to it and one nested object
\* (child = 0: none)
NewObject(items, child) == [items |-> items, child |-> child]

\* _.cloneDeep(definition): a copy whose nested objects are copies too
RECURSIVE cloneDeep(_, _)
cloneDeep(h, a) ==
    IF h[a].child = 0
    THEN [heap |-> Append(h, h[a]), addr |-> Len(h) + 1]
    ELSE LET c == cloneDeep(h, h[a].child)
         IN  [heap |-> Append(c.heap, [h[a] EXCEPT !.child = c.addr]),
              addr |-> Len(c.heap) + 1]

\* _.clone(definition): a copy that shares the nested objects
clone(h, a) == [heap |-> Append(h, h[a]), addr |-> Len(h) + 1]

\* _.isFunction(definition)
isFunction(x) == x.t \in {"factory", "resolver"}

\* _.isObject(definition), for a value that is not a function
isObject(x) == x.t \in {"ref", "container", "definition", "factory", "resolver"}

----------------------------------------------------------------------------
(* Label registry *)

\* no callback registered under a label name
NoCallback == "none"

\* The callbacks callers register in this model, "count" and "push".  Both
\* count their calls per Definition (this) and label, as the callbacks of the
\* test suite do with
\* `called++`; "push" also pushes the label name to an instance that is an
\* object (instance.push(...)), "count" leaves the instance alone.

\* the callback a caller registers under a label name: L1 counts, L2 pushes
CallbackFor(name) == IF name = "L1" THEN "count" ELSE "push"

\* the callback (instance, container, id) => container.get(id), which
\* resolves the service it is applied for
Reentrant == "reenter"

\* defineLabel(label, callback), lines 265-268
defineLabel(w, label, callback) ==
    Return([w EXCEPT !.labels[label] = callback], Container)

\* getLabel(label), lines 270-278
getLabel(w, label) ==
    IF w.labels[label] = NoCallback
    THEN Throw(w, LabelNotDefined)
    ELSE [w |-> w, ok |-> TRUE, err |-> "", val |-> w.labels[label]]

\* A call of a function of the source, F its body: the call takes a frame
\* of the call stack, and the engine raises a RangeError in its place when
\* the stack has no room for the frame.  depth is the number of frames the
\* calls in progress hold, deepest the largest number held so far, room the
\* number the stack has room for.
Frame(w, F(_)) ==
    IF w.depth >= w.room
    THEN Throw(w, StackOverflow)
    ELSE [F([w EXCEPT !.depth = @ + 1,
                      !.deepest = IF @ > w.depth THEN @ ELSE w.depth + 1])
          EXCEPT !.w.depth = w.depth]

RECURSIVE invoke(_, _)
RECURSIVE get(_, _)
RECURSIVE property(_, _)

\* callback.apply(this, [instance, container, ID]) for the callbacks above;
\* d is the Definition the callback is applied to, name the label's name.
\* The world logs the call (trace), the ID passed (ids) and what a nested
\* get returned to the callback (nested).
applyCallback(w, callback, d, instance, name) ==
    LET w1 == [w EXCEPT !.hist[d].called[name] = @ + 1,
                        !.trace = Append(@, <<d, name>>),
                        !.ids = Append(@, w.defs[d].ID)]
    IN  IF callback = "push" /\ instance.t = "ref"
        THEN Return([w1 EXCEPT !.heap[instance.v].items = Append(@, name)], Undefined)
        ELSE IF callback = Reentrant
        THEN Bind(get(w1, w1.defs[d].ID),
                  LAMBDA w2, v : Return([w2 EXCEPT !.nested = Append(@, v)], Undefined))
        ELSE Return(w1, Undefined)

----------------------------------------------------------------------------
(* Definition *)

\* the resolve property of a Definition that was never compiled
NoClosure == 0

\* configure(definition), lines 309-317, of the Definition d: from a
\* Definition given as the raw specification d adopts the context and the
\* args, and its resolve function (undefined when it was never compiled) is
\* returned in its place
configure(w, d, definition) ==
    IF definition.t = "definition"
    THEN Return([w EXCEPT !.defs[d].context = w.defs[definition.v].context,
                          !.defs[d].args = w.defs[definition.v].args],
                IF w.defs[definition.v].resolve = NoClosure
                THEN Undefined
                ELSE ResolverRef(w.defs[definition.v].resolve))
    ELSE Return(w, definition)

\* new Definition(definition, container, context, ...args), lines 289-296:
\* the world with the new Definition, which has the next handle; the fields
\* are assigned in the order of the constructor, raw last, from what
\* configure returns
NewDefinition(w, definition, context, args) ==
    LET d  == Len(w.defs) + 1
        w1 == [w EXCEPT !.defs = Append(@, [shared |-> FALSE, labels |-> <<>>,
                                            raw |-> Undefined, ID |-> "",
                                            resolve |-> NoClosure,
                                            context |-> context, args |-> args])]
        r  == configure(w1, d, definition)
    IN  [r.w EXCEPT !.defs[d].raw = r.val]

label_Duplicating(w, d, name, labelToDefine) ==
    LET w1 == [w EXCEPT !.defs[d].labels = Append(@, name)]
    IN  Return(IF labelToDefine # NoCallback
               THEN defineLabel(w1, name, labelToDefine).w
               ELSE w1,
               DefinitionRef(d))

\* the setter of Definition.shared, lines 298-300
shared(w, d, val) == [w EXCEPT !.defs[d].shared = val]

\* Definition.label(name, labelToDefine), lines 324-330: labels is a Set,
\* which keeps the order of first insertion and ignores a value it already
\* holds; a labelToDefine that is a function (NoCallback: not given) is
\* registered in the container as the callback of the label; the
\* Definition is returned
label(w, d, name, labelToDefine) ==
    LET w1 == IF \E i \in 1..Len(w.defs[d].labels) : w.defs[d].labels[i] = name
              THEN w
              ELSE [w EXCEPT !.defs[d].labels = Append(@, name)]
    IN  Return(IF labelToDefine # NoCallback
               THEN defineLabel(w1, name, labelToDefine).w
               ELSE w1,
               DefinitionRef(d))

\* Definition.tags(...tags), lines 336-339, defined with the tag store
RECURSIVE Definition_tags(_, _, _)

\* _.map(this.args, arg => arg instanceof Definition ? arg.resolve() : arg),
\* lines 341-345, from the i-th argument on: a Definition among the args is
\* resolved now; one that was never compiled has no resolve function
RECURSIVE mapArgs(_, _, _)
mapArgs(w, args, i) ==
    IF i > Len(args) THEN Return(w, <<>>)
    ELSE Bind(IF args[i].t # "definition" THEN Return(w, args[i])
              ELSE IF w.defs[args[i].v].resolve = NoClosure
                   THEN Throw(w, NotAFunction)
                   ELSE invoke(w, w.defs[args[i].v].resolve),
              LAMBDA w1, v :
                  Bind(mapArgs(w1, args, i + 1),
                       LAMBDA w2, rest : Return(w2, <<v>> \o rest)))

\* Definition.arguments(), lines 341-345
arguments(w, d) == mapArgs(w, w.defs[d].args, 1)

\* the function createResolver(definition) of the Definition d returns,
\* lines 370-382, as data: a function bound to the context and to the
\* arguments as arguments() yields them now, a closure over an object, or
\* _.constant(definition)
createResolver(w, d, definition) ==
    IF isFunction(definition)
    THEN Bind(arguments(w, d),
              LAMBDA w1, a : Return(w1, [kind |-> "bound", target |-> definition,
                                         context |-> w.defs[d].context,
                                         bound |-> a]))
    ELSE Return(w, [kind |-> IF isObject(definition) THEN "object" ELSE "constant",
                    target |-> definition, context |-> Undefined, bound |-> <<>>])

wrap_AlwaysOnce(w, d, inner) ==
    [def |-> d, kind |-> inner.kind, target |-> inner.target,
     context |-> inner.context, bound |-> inner.bound,
     once |-> TRUE, n |-> 2, result |-> Undefined]

\* wrap(resolve), lines 347-363: the closure over the inner resolver; it is
\* passed through _.once when _shared is true at this moment.  n and result
\* are the variables of lodash's before(2, func), which once(func) is.
wrap(w, d, inner) ==
    [def |-> d, kind |-> inner.kind, target |-> inner.target,
     context |-> inner.context, bound |-> inner.bound,
     once |-> w.defs[d].shared, n |-> 2, result |-> Undefined]

\* compile(serviceId), lines 365-368: the ID is assigned, then the resolver
\* is built and wrapped; when createResolver throws, resolve is not assigned
compile(w, d, serviceId) ==
    Bind(createResolver([w EXCEPT !.defs[d].ID = serviceId], d, w.defs[d].raw),
         LAMBDA w1, inner :
             Return([w1 EXCEPT !.closures = Append(@, wrap(w1, d, inner)),
                               !.defs[d].resolve = Len(w1.closures) + 1],
                    Undefined))

----------------------------------------------------------------------------
(* Calling a compiled resolve function *)

callInner_NoCopy(w, c) ==
    LET cl == w.closures[c]
    IN  CASE cl.kind = "constant" -> Return(w, cl.target)
          [] cl.kind = "object" -> Return(w, cl.target)
          [] cl.kind = "bound" ->
                IF cl.target.t = "resolver"
                THEN invoke(w, cl.target.v)
                ELSE Return([w EXCEPT !.heap =
                                Append(@, NewObject(<<cl.context>> \o cl.bound, 0))],
                            Ref(Len(w.heap) + 1))

\* _.clone and _.cloneDeep of the container copy its own enumerable
\* properties in the order they were created, which reads every accessor
\* property setRaw defined, from the i-th on: each read calls the getter of
\* line 93
RECURSIVE readAccessors(_, _)
readAccessors(w, i) ==
    IF i > Len(w.accessors)
    THEN Return(w, Undefined)
    ELSE Bind(property(w, w.accessors[i]), LAMBDA w1, v : readAccessors(w1, i + 1))

\* _.cloneDeep(container) and _.clone(container), line 377.  The deep
\* clone reaches _definitions ahead of the accessor properties: a lodash
\* that clones the entries of a Map on a stack of their own clones the
\* container again for every Definition it holds (Definition.container)
\* and exhausts the call stack as soon as one Definition is registered.
cloneContainer(w) ==
    IF /\ w.deepClone
       /\ w.cloneMapStack = "own"
       /\ \E id \in DOMAIN w.definitions : w.definitions[id] # 0
    THEN Throw(w, StackOverflow)
    ELSE Bind(readAccessors(w, 1), LAMBDA w1, v : Return(w1, ContainerCopy))

\* the inner resolver createResolver built, called with no arguments:
\* line 372 (the bound function), lines 376-378 (an object: itself when
\* _shared is true now, else a copy), line 381 (a constant).  A factory of
\* this model is `function (...args) { return [this, ...args] }`, the one of
\* the test suite; a bound resolve function of another Definition ignores
\* its receiver and its arguments.
callInner(w, c) ==
    LET cl == w.closures[c]
    IN  CASE cl.kind = "constant" -> Return(w, cl.target)
          [] cl.kind = "object" ->
                IF w.defs[cl.def].shared
                THEN Return(w, cl.target)
                ELSE IF cl.target.t = "container"
                THEN cloneContainer(w)
                ELSE LET k == IF w.deepClone THEN cloneDeep(w.heap, cl.target.v)
                                             ELSE clone(w.heap, cl.target.v)
                     IN  Return([w EXCEPT !.heap = k.heap], Ref(k.addr))
          [] cl.kind = "bound" ->
                IF cl.target.t = "resolver"
                THEN invoke(w, cl.target.v)
                ELSE Return([w EXCEPT !.heap =
                                Append(@, NewObject(<<cl.context>> \o cl.bound, 0))],
                            Ref(Len(w.heap) + 1))

\* label => getLabel(label).apply(this, [instance, ...]), line 353: the
\* callback of forEach, called for a label, calls the callback of the label
visitLabel(w, d, instance, name) ==
    Frame(w, LAMBDA w0 :
        LET g == getLabel(w0, name)
        IN  IF ~g.ok
            THEN Throw(g.w, g.err)
            ELSE Frame(g.w, LAMBDA w1 : applyCallback(w1, g.val, d, instance, name)))

\* this.labels.forEach(...), lines 352-354, from the i-th label on; the
\* labels are read when visited
RECURSIVE forEachLabel(_, _, _, _)
forEachLabel(w, d, instance, i) ==
    IF i > Len(w.defs[d].labels)
    THEN Return(w, instance)
    ELSE Bind(visitLabel(w, d, instance, w.defs[d].labels[i]),
              LAMBDA w1, v : forEachLabel(w1, d, instance, i + 1))

\* the function _.wrap(resolve, ...) returns, lines 350-356: it calls the
\* inner resolver, then visits the labels
wrapped(w, c) ==
    Bind(Frame(w, LAMBDA w0 : callInner(w0, c)),
         LAMBDA w1, v : forEachLabel(w1, w.closures[c].def, v, 1))

once_Rerunning(w, c) ==
    Bind(wrapped(w, c), LAMBDA w2, v : Return([w2 EXCEPT !.closures[c].result = v], v))

\* the function _.once(wrapped) returns, line 359: lodash's before(2, func),
\*     if (--n > 0) { result = func.apply(this, arguments); }
\*     if (n <= 1) { func = undefined; }
\*     return result;
\* n is decremented before func runs and stays so when func throws.  (n keeps
\* falling in lodash; every value below 1 behaves alike, so it stops at 0.)
once(w, c) ==
    LET cl == w.closures[c]
        n1 == IF cl.n > 0 THEN cl.n - 1 ELSE 0
        w1 == [w EXCEPT !.closures[c].n = n1]
    IN  IF n1 > 0
        THEN Bind(wrapped(w1, c),
                  LAMBDA w2, v : Return([w2 EXCEPT !.closures[c].result = v], v))
        ELSE Return(w1, cl.result)

\* resolve(): a call of the closure compile stored
invoke(w, c) ==
    Frame(w, LAMBDA w0 : IF w0.closures[c].once THEN once(w0, c) ELSE wrapped(w0, c))

----------------------------------------------------------------------------
(* Pimple: the service registry *)

\* _.keysIn(this) in the constructor, lines 25-30
Reserved == {"_deepClone", "_definitions", "_labels", "_tags", "_reserved"}

\* isReserved(serviceId), lines 280-282
isReserved(serviceId) == serviceId \in Reserved

\* getDefinition(serviceId), lines 65-73
getDefinition(w, serviceId) ==
    IF w.definitions[serviceId] = 0
    THEN Throw(w, ServiceNotDefined)
    ELSE Return(w, DefinitionRef(w.definitions[serviceId]))

get_Default(w, serviceId) ==
    LET r == getDefinition(w, serviceId)
    IN  IF ~r.ok THEN Return(w, Undefined) ELSE invoke(r.w, r.w.defs[r.val.v].resolve)

\* get(serviceId), lines 38-40
get(w, serviceId) ==
    LET r == getDefinition(w, serviceId)
    IN  IF ~r.ok THEN r ELSE invoke(r.w, r.w.defs[r.val.v].resolve)

\* getResolver(serviceId), lines 46-48
getResolver(w, serviceId) ==
    LET r == getDefinition(w, serviceId)
    IN  IF ~r.ok THEN r ELSE Return(r.w, ResolverRef(r.w.defs[r.val.v].resolve))

\* the history kept for a new Definition; of is the Definition that was given
\* to it as the raw specification (0: none)
NoHistory ==
    [gets |-> 0, rets |-> <<>>, called |-> [l \in LabelNames |-> 0], first |-> <<>>,
     of |-> 0]

\* create(definition, context, argument), lines 140-142: a new Definition;
\* a context or an argument not given (undefined) is the container
create(w, definition, context, argument) ==
    LET ctx == IF context = Undefined THEN Container ELSE context
        arg == IF argument = Undefined THEN Container ELSE argument
    IN  Return([NewDefinition(w, definition, ctx, <<arg>>) EXCEPT
                    !.hist = Append(@, [NoHistory EXCEPT !.of =
                                 IF definition.t = "definition"
                                 THEN definition.v ELSE 0])],
               DefinitionRef(Len(w.defs) + 1))

\* the configurators callers pass in this model:
\*   Share, Unshare      definition => { definition.shared = true / false }
\*                       (the setter of lines 298-300)
\*   LabelWith(n, cb)    the exported label(n, cb), lines 391-395
\*   TagWith(specs)      the exported tag(...specs), lines 402-406
Share == [c |-> "shared", val |-> TRUE]
Unshare == [c |-> "shared", val |-> FALSE]
LabelWith(name, callback) == [c |-> "label", name |-> name, callback |-> callback]
TagWith(specs) == [c |-> "tag", tags |-> specs]

\* one configurator called with (definition, container)
configurator(w, d, cf) ==
    CASE cf.c = "shared" -> Return(shared(w, d, cf.val), Undefined)
      [] cf.c = "label" ->
            Bind(label(w, d, cf.name, cf.callback), LAMBDA w1, v : Return(w1, Undefined))
      [] cf.c = "tag" ->
            Bind(Definition_tags(w, d, cf.tags), LAMBDA w1, v : Return(w1, Undefined))

\* _.over([...configurators])(definition, this), lines 106-108
RECURSIVE over(_, _, _)
over(w, d, configurators) ==
    IF configurators = <<>> THEN Return(w, Undefined)
    ELSE Bind(configurator(w, d, Head(configurators)),
              LAMBDA w1, v : over(w1, d, Tail(configurators)))

\* setRaw(serviceId, definition, ...configurators), lines 81-111.
\* `!definition instanceof Definition` is `false instanceof Definition`, so
\* the guard of line 82 never throws; a value that is no Definition fails at
\* line 86, where its compile property is read and called.
setRaw(w, serviceId, definition, configurators) ==
    IF definition = Undefined
    THEN Throw(w, CannotReadProperty)
    ELSE IF definition.t # "definition"
    THEN Throw(w, NotAFunction)
    ELSE LET d == definition.v
         IN  Bind(compile(w, d, serviceId),
                  LAMBDA w1, v :
                      LET w2 == [w1 EXCEPT !.definitions[serviceId] = d]
                          w3 == IF isReserved(serviceId) THEN w2
                                ELSE IF \E i \in 1..Len(w2.accessors) :
                                            w2.accessors[i] = serviceId
                                THEN w2
                                ELSE [w2 EXCEPT !.accessors = Append(@, serviceId)]
                      IN  Bind(over(w3, d, configurators),
                               LAMBDA w4, r : Return(w4, Container)))

set_KeepingLabels(w, serviceId, definition, configurators) ==
    LET r   == create(w, definition, Undefined, Undefined)
        old == w.definitions[serviceId]
        w1  == IF old = 0 THEN r.w
               ELSE [r.w EXCEPT !.defs[r.val.v].labels = w.defs[old].labels]
    IN  setRaw(w1, serviceId, r.val, configurators)

\* set(serviceId, definition, ...configurators), lines 57-59
set(w, serviceId, definition, configurators) ==
    LET r == create(w, definition, Undefined, Undefined)
    IN  setRaw(r.w, serviceId, r.val, configurators)

\* setShared(serviceId, definition, ...configures), lines 119-123
setShared(w, serviceId, definition, configures) ==
    LET r  == create(w, definition, Undefined, Undefined)
        w1 == shared(r.w, r.val.v, TRUE)
    IN  Bind(setRaw(w1, serviceId, r.val, configures),
             LAMBDA w2, v : Return(w2, Undefined))

\* a method of class Pimple, as the value of a property of the container
Method(name) == [t |-> "method", v |-> name]

\* this[name], for the name of a method of the class: an accessor property
\* that setRaw defined on the container under that name (lines 91-97)
\* shadows the method, and reading it calls the getter of line 93,
\* () => this.get(name), which reads this.get in turn
property(w, name) ==
    IF \A i \in 1..Len(w.accessors) : w.accessors[i] # name
    THEN Return(w, Method(name))
    ELSE Frame(w, LAMBDA w0 :
             Bind(property(w0, "get"),
                  LAMBDA w1, f : IF f.t = "method" THEN get(w1, name)
                                 ELSE Throw(w1, NotAFunction)))

\* container.get(serviceId), as a caller writes it: the property is read,
\* then called
callGet(w, serviceId) ==
    Bind(property(w, "get"),
         LAMBDA w1, f : IF f.t = "method" THEN get(w1, serviceId)
                        ELSE Throw(w1, NotAFunction))

\* container.set(serviceId, definition, ...configurators), as a caller
\* writes it: the property is read, the arguments evaluated (literal builds
\* the definition), then the value of the property called
callSet(w, serviceId, f, l, configurators) ==
    IF f.t = "method" THEN set(l.w, serviceId, l.val, configurators)
    ELSE Throw(l.w, NotAFunction)

\* _.forEach(labels, label => rawDef.label(label)), line 255
RECURSIVE labelEach(_, _, _)
labelEach(w, d, names) ==
    IF names = <<>> THEN w
    ELSE labelEach(label(w, d, Head(names), NoCallback).w, d, Tail(names))

\* addLabel(serviceId, ...labels), lines 253-257
addLabel(w, serviceId, names) ==
    LET r == getDefinition(w, serviceId)
    IN  IF ~r.ok THEN r ELSE Return(labelEach(r.w, r.val.v, names), Container)

----------------------------------------------------------------------------
(* Numbers, and the strings that convert to them.  A string that is parsed  *)
(* is held as the sequence of its characters.                                *)

\* A number: sign * 0.d1 d2 ... dn * 10^exp, where digits = <<d1, ..., dn>>
\* are its significant decimal digits (neither the first nor the last is 0).
\* Zero has sign 0 (the sign of a zero is not kept), an infinity has a sign
\* and inf = TRUE.
Number(sign, digits, exp) ==
    [k |-> "number", sign |-> sign, digits |-> digits, exp |-> exp, inf |-> FALSE]
Zero == Number(0, <<>>, 0)
Infinity(sign) == [k |-> "number", sign |-> sign, digits |-> <<>>, exp |-> 0, inf |-> TRUE]

\* what converts to no number
NaN == [k |-> "NaN"]

\* the decimal digits of a natural number, the most significant first
RECURSIVE DigitsOf(_)
DigitsOf(n) == IF n = 0 THEN <<>> ELSE Append(DigitsOf(n \div 10), n % 10)

\* 0.a against 0.b for two sequences of decimal digits: -1, 0 or 1, by the
\* first digit in which they differ, the shorter one continued with zeros
CompareDigits(a, b) ==
    LET n    == IF Len(a) > Len(b) THEN Len(a) ELSE Len(b)
        x(i) == IF i <= Len(a) THEN a[i] ELSE 0
        y(i) == IF i <= Len(b) THEN b[i] ELSE 0
    IN  IF \A i \in 1..n : x(i) = y(i) THEN 0
        ELSE LET k == CHOOSE k \in 1..n :
                          x(k) # y(k) /\ \A j \in 1..(k - 1) : x(j) = y(j)
             IN  IF x(k) < y(k) THEN -1 ELSE 1

\* the magnitude 0.digits * 10^exp against 0.t * 10^texp: -1, 0 or 1
CompareMagnitude(digits, exp, t, texp) ==
    IF exp < texp THEN -1 ELSE IF exp > texp THEN 1 ELSE CompareDigits(digits, t)

\* The numbers of the source are IEEE 754 doubles, and a conversion rounds
\* to the nearest double, a tie to the even one.  A magnitude from
\* 2^1024 - 2^970 on rounds to infinity, one up to 2^-1075 rounds to zero,
\* and one up to 1 + 2^-53 rounds to no more than 1.  The three bounds are
\* written out in full: 309, 752 and 54 digits.
RoundsToInfinity ==
    [digits |-> <<
          1, 7, 9, 7, 6, 9, 3, 1, 3, 4, 8, 6, 2, 3, 1, 5, 8, 0, 7, 9, 3, 7, 2, 8, 9, 7, 1, 4, 0, 5,
          3, 0, 3, 4, 1, 5, 0, 7, 9, 9, 3, 4, 1, 3, 2, 7, 1, 0, 0, 3, 7, 8, 2, 6, 9, 3, 6, 1, 7, 3,
          7, 7, 8, 9, 8, 0, 4, 4, 4, 9, 6, 8, 2, 9, 2, 7, 6, 4, 7, 5, 0, 9, 4, 6, 6, 4, 9, 0, 1, 7,
          9, 7, 7, 5, 8, 7, 2, 0, 7, 0, 9, 6, 3, 3, 0, 2, 8, 6, 4, 1, 6, 6, 9, 2, 8, 8, 7, 9, 1, 0,
          9, 4, 6, 5, 5, 5, 5, 4, 7, 8, 5, 1, 9, 4, 0, 4, 0, 2, 6, 3, 0, 6, 5, 7, 4, 8, 8, 6, 7, 1,
          5, 0, 5, 8, 2, 0, 6, 8, 1, 9, 0, 8, 9, 0, 2, 0, 0, 0, 7, 0, 8, 3, 8, 3, 6, 7, 6, 2, 7, 3,
          8, 5, 4, 8, 4, 5, 8, 1, 7, 7, 1, 1, 5, 3, 1, 7, 6, 4, 4, 7, 5, 7, 3, 0, 2, 7, 0, 0, 6, 9,
          8, 5, 5, 5, 7, 1, 3, 6, 6, 9, 5, 9, 6, 2, 2, 8, 4, 2, 9, 1, 4, 8, 1, 9, 8, 6, 0, 8, 3, 4,
          9, 3, 6, 4, 7, 5, 2, 9, 2, 7, 1, 9, 0, 7, 4, 1, 6, 8, 4, 4, 4, 3, 6, 5, 5, 1, 0, 7, 0, 4,
          3, 4, 2, 7, 1, 1, 5, 5, 9, 6, 9, 9, 5, 0, 8, 0, 9, 3, 0, 4, 2, 8, 8, 0, 1, 7, 7, 9, 0, 4,
          1, 7, 4, 4, 9, 7, 7, 9, 2>>,
     exp |-> 309]
RoundsToZero ==
    [digits |-> <<
          2, 4, 7, 0, 3, 2, 8, 2, 2, 9, 2, 0, 6, 2, 3, 2, 7, 2, 0, 8, 8, 2, 8, 4, 3, 9, 6, 4, 3, 4,
          1, 1, 0, 6, 8, 6, 1, 8, 2, 5, 2, 9, 9, 0, 1, 3, 0, 7, 1, 6, 2, 3, 8, 2, 2, 1, 2, 7, 9, 2,
          8, 4, 1, 2, 5, 0, 3, 3, 7, 7, 5, 3, 6, 3, 5, 1, 0, 4, 3, 7, 5, 9, 3, 2, 6, 4, 9, 9, 1, 8,
          1, 8, 0, 8, 1, 7, 9, 9, 6, 1, 8, 9, 8, 9, 8, 2, 8, 2, 3, 4, 7, 7, 2, 2, 8, 5, 8, 8, 6, 5,
          4, 6, 3, 3, 2, 8, 3, 5, 5, 1, 7, 7, 9, 6, 9, 8, 9, 8, 1, 9, 9, 3, 8, 7, 3, 9, 8, 0, 0, 5,
          3, 9, 0, 9, 3, 9, 0, 6, 3, 1, 5, 0, 3, 5, 6, 5, 9, 5, 1, 5, 5, 7, 0, 2, 2, 6, 3, 9, 2, 2,
          9, 0, 8, 5, 8, 3, 9, 2, 4, 4, 9, 1, 0, 5, 1, 8, 4, 4, 3, 5, 9, 3, 1, 8, 0, 2, 8, 4, 9, 9,
          3, 6, 5, 3, 6, 1, 5, 2, 5, 0, 0, 3, 1, 9, 3, 7, 0, 4, 5, 7, 6, 7, 8, 2, 4, 9, 2, 1, 9, 3,
          6, 5, 6, 2, 3, 6, 6, 9, 8, 6, 3, 6, 5, 8, 4, 8, 0, 7, 5, 7, 0, 0, 1, 5, 8, 5, 7, 6, 9, 2,
          6, 9, 9, 0, 3, 7, 0, 6, 3, 1, 1, 9, 2, 8, 2, 7, 9, 5, 5, 8, 5, 5, 1, 3, 3, 2, 9, 2, 7, 8,
          3, 4, 3, 3, 8, 4, 0, 9, 3, 5, 1, 9, 7, 8, 0, 1, 5, 5, 3, 1, 2, 4, 6, 5, 9, 7, 2, 6, 3, 5,
          7, 9, 5, 7, 4, 6, 2, 2, 7, 6, 6, 4, 6, 5, 2, 7, 2, 8, 2, 7, 2, 2, 0, 0, 5, 6, 3, 7, 4, 0,
          0, 6, 4, 8, 5, 4, 9, 9, 9, 7, 7, 0, 9, 6, 5, 9, 9, 4, 7, 0, 4, 5, 4, 0, 2, 0, 8, 2, 8, 1,
          6, 6, 2, 2, 6, 2, 3, 7, 8, 5, 7, 3, 9, 3, 4, 5, 0, 7, 3, 6, 3, 3, 9, 0, 0, 7, 9, 6, 7, 7,
          6, 1, 9, 3, 0, 5, 7, 7, 5, 0, 6, 7, 4, 0, 1, 7, 6, 3, 2, 4, 6, 7, 3, 6, 0, 0, 9, 6, 8, 9,
          5, 1, 3, 4, 0, 5, 3, 5, 5, 3, 7, 4, 5, 8, 5, 1, 6, 6, 6, 1, 1, 3, 4, 2, 2, 3, 7, 6, 6, 6,
          7, 8, 6, 0, 4, 1, 6, 2, 1, 5, 9, 6, 8, 0, 4, 6, 1, 9, 1, 4, 4, 6, 7, 2, 9, 1, 8, 4, 0, 3,
          0, 0, 5, 3, 0, 0, 5, 7, 5, 3, 0, 8, 4, 9, 0, 4, 8, 7, 6, 5, 3, 9, 1, 7, 1, 1, 3, 8, 6, 5,
          9, 1, 6, 4, 6, 2, 3, 9, 5, 2, 4, 9, 1, 2, 6, 2, 3, 6, 5, 3, 8, 8, 1, 8, 7, 9, 6, 3, 6, 2,
          3, 9, 3, 7, 3, 2, 8, 0, 4, 2, 3, 8, 9, 1, 0, 1, 8, 6, 7, 2, 3, 4, 8, 4, 9, 7, 6, 6, 8, 2,
          3, 5, 0, 8, 9, 8, 6, 3, 3, 8, 8, 5, 8, 7, 9, 2, 5, 6, 2, 8, 3, 0, 2, 7, 5, 5, 9, 9, 5, 6,
          5, 7, 5, 2, 4, 4, 5, 5, 5, 0, 7, 2, 5, 5, 1, 8, 9, 3, 1, 3, 6, 9, 0, 8, 3, 6, 2, 5, 4, 7,
          7, 9, 1, 8, 6, 9, 4, 8, 6, 6, 7, 9, 9, 4, 9, 6, 8, 3, 2, 4, 0, 4, 9, 7, 0, 5, 8, 2, 1, 0,
          2, 8, 5, 1, 3, 1, 8, 5, 4, 5, 1, 3, 9, 6, 2, 1, 3, 8, 3, 7, 7, 2, 2, 8, 2, 6, 1, 4, 5, 4,
          3, 7, 6, 9, 3, 4, 1, 2, 5, 3, 2, 0, 9, 8, 5, 9, 1, 3, 2, 7, 6, 6, 7, 2, 3, 6, 3, 2, 8, 1,
          2, 5>>,
     exp |-> -323]
RoundsToOne ==
    [digits |-> <<1,0,0,0,0,0,0,0,0,0,0,0,0,0,0,0,1,1,1,0,2,2,3,0,2,4,6,2,5,1,5,6,5,4,0,
                  4,2,3,6,3,1,6,6,8,0,9,0,8,2,0,3,1,2,5>>,
     exp |-> 1]

\* StrWhiteSpaceChar of ECMAScript, the white space Number() and
\* parseFloat skip: the tab, the vertical tab, the form feed, the space, the
\* no-break space, the byte order mark, the other space separators of
\* Unicode (Zs), and the line terminators (line feed, carriage return, line
\* and paragraph separator).  A character that is not printable ASCII and
\* has no escape is held by its code point.
WhiteSpace ==
    {"\t", "U+000B", "\f", " ", "U+00A0", "U+FEFF",
     "U+1680", "U+2000", "U+2001", "U+2002", "U+2003", "U+2004", "U+2005",
     "U+2006", "U+2007", "U+2008", "U+2009", "U+200A", "U+202F", "U+205F",
     "U+3000",
     "\n", "\r", "U+2028", "U+2029"}

\* s without the elements of cs it starts with, and without those it ends
\* with
TrimLeft(s, cs) ==
    IF \A i \in 1..Len(s) : s[i] \in cs THEN <<>>
    ELSE SubSeq(s, CHOOSE k \in 1..Len(s) :
                       s[k] \notin cs /\ \A j \in 1..(k - 1) : s[j] \in cs,
                Len(s))

TrimRight(s, cs) ==
    IF \A i \in 1..Len(s) : s[i] \in cs THEN <<>>
    ELSE SubSeq(s, 1, CHOOSE k \in 1..Len(s) :
                          s[k] \notin cs /\ \A j \in (k + 1)..Len(s) : s[j] \in cs)

\* the number sign * 0.ds * 10^point as a double, for a sequence ds of
\* decimal digits: the zeros at both ends are dropped, then the range of a
\* double is applied.  The digits are kept as written, not rounded to 53
\* bits; the comparisons below are those of the rounded number.
Double(sign, ds, point) ==
    LET digits == TrimRight(TrimLeft(ds, {0}), {0})
        exp    == point - (Len(ds) - Len(TrimLeft(ds, {0})))
    IN  IF digits = <<>> THEN Zero
        ELSE IF CompareMagnitude(digits, exp, RoundsToInfinity.digits,
                                 RoundsToInfinity.exp) >= 0
        THEN Infinity(sign)
        ELSE IF CompareMagnitude(digits, exp, RoundsToZero.digits,
                                 RoundsToZero.exp) <= 0
        THEN Zero
        ELSE Number(sign, digits, exp)

\* a number written in the source or by a caller as an integer literal
Num(n) ==
    IF n < 0 THEN Double(-1, DigitsOf(-n), Len(DigitsOf(-n)))
    ELSE Double(1, DigitsOf(n), Len(DigitsOf(n)))

\* isFinite(x), for a number or NaN
isFinite(x) == x.k = "number" /\ ~x.inf

\* the magnitude of x is 1 or less as a double: below 1, 1 as written, or
\* rounding to 1
WithinOne(x) ==
    /\ ~x.inf
    /\ \/ x.exp < 1
       \/ x.exp = 1 /\ x.digits = <<1>>
       \/ CompareMagnitude(x.digits, x.exp, RoundsToOne.digits, RoundsToOne.exp) <= 0

\* the characters of the numerals
LowerDigits == <<"0", "1", "2", "3", "4", "5", "6", "7", "8", "9", "a", "b", "c", "d", "e", "f">>
UpperDigits == <<"0", "1", "2", "3", "4", "5", "6", "7", "8", "9", "A", "B", "C", "D", "E", "F">>

\* the value of each character that is a digit of some radix up to 16
Digits ==
    [c \in {LowerDigits[i] : i \in 1..16} \cup {UpperDigits[i] : i \in 1..16} |->
        (CHOOSE i \in 1..16 : LowerDigits[i] = c \/ UpperDigits[i] = c) - 1]

\* the value of character c as a digit of the radix, -1 when it is none
DigitValue(c, radix) ==
    IF c \in DOMAIN Digits /\ Digits[c] < radix THEN Digits[c] ELSE -1

AllDigits(s, radix) == \A i \in 1..Len(s) : DigitValue(s[i], radix) >= 0

\* StrDecimalLiteral of ECMAScript, the grammar Number() and parseFloat
\* share, is read character by character: an optional sign, decimal digits
\* with at most one point and at least one digit, and an optional exponent
\* part (e or E, an optional sign, digits).  What has been read is
\*   phase   where the reading is: "start", "signed" (after the sign), "int"
\*           (in the digits before the point), "point" (after a point that
\*           no digit precedes), "frac" (after a point that digits precede,
\*           or in the digits after the point), "e" (after e or E),
\*           "esigned" (after the sign of the exponent), "exp" (in the
\*           digits of the exponent), "stop" (a character that cannot follow)
\*   sign    1 or -1
\*   digits  the digits of the mantissa, the point left out
\*   point   how many of them precede the point, -1 while no point is read
\*   esign, exp   the sign and the magnitude of the exponent
\*   most    the magnitude from which exp is no longer counted up
\* A literal ends in phase "int", "frac" or "exp".
\*
\* The reading of a string of n characters starts with most = n + 325.  Its
\* mantissa has fewer than n digits, so with an exponent of n + 325 or more
\* the magnitude is 10^325 at least or 10^-325 at most, unless every digit
\* is 0: an infinity or a zero, whatever the digits of the exponent that
\* follow.
ScanStart(s) ==
    [phase |-> "start", sign |-> 1, digits |-> <<>>, point |-> -1, esign |-> 1, exp |-> 0,
     most |-> Len(s) + 325]

\* the reading after character c
Step(a, c) ==
    CASE c \in {"+", "-"} /\ a.phase = "start" ->
            [a EXCEPT !.phase = "signed", !.sign = IF c = "-" THEN -1 ELSE 1]
      [] c \in {"+", "-"} /\ a.phase = "e" ->
            [a EXCEPT !.phase = "esigned", !.esign = IF c = "-" THEN -1 ELSE 1]
      [] c = "." /\ a.phase \in {"start", "signed"} ->
            [a EXCEPT !.phase = "point", !.point = 0]
      [] c = "." /\ a.phase = "int" ->
            [a EXCEPT !.phase = "frac", !.point = Len(a.digits)]
      [] c \in {"e", "E"} /\ a.phase \in {"int", "frac"} ->
            [a EXCEPT !.phase = "e"]
      [] DigitValue(c, 10) >= 0 /\ a.phase \in {"start", "signed", "int"} ->
            [a EXCEPT !.phase = "int", !.digits = Append(@, DigitValue(c, 10))]
      [] DigitValue(c, 10) >= 0 /\ a.phase \in {"point", "frac"} ->
            [a EXCEPT !.phase = "frac", !.digits = Append(@, DigitValue(c, 10))]
      [] DigitValue(c, 10) >= 0 /\ a.phase \in {"e", "esigned", "exp"} ->
            [a EXCEPT !.phase = "exp",
                      !.exp = IF @ * 10 + DigitValue(c, 10) > a.most THEN a.most
                              ELSE @ * 10 + DigitValue(c, 10)]
      [] OTHER -> [a EXCEPT !.phase = "stop"]

\* The characters lo to hi of s read after r, where r.a is the reading of
\* the characters before them and r.good the reading of the longest literal
\* among those.  The range is read half by half, and what follows a
\* character that cannot follow is not read.
RECURSIVE Read(_, _, _, _)
Read(s, lo, hi, r) ==
    IF lo > hi \/ r.a.phase = "stop" THEN r
    ELSE IF lo = hi
    THEN [a    |-> Step(r.a, s[lo]),
          good |-> IF r.a.phase \in {"int", "frac", "exp"} THEN r.a ELSE r.good]
    ELSE LET left == Read(s, lo, (lo + hi) \div 2, r)
         IN  IF left.a.phase = "stop" THEN left
             ELSE Read(s, (lo + hi) \div 2 + 1, hi, left)

\* The reading of s.  When the whole of s is to be a literal it is the
\* reading of all of s, otherwise that of its longest prefix that is a
\* literal.
Scan(s, whole) ==
    LET r == Read(s, 1, Len(s), [a |-> ScanStart(s), good |-> ScanStart(s)])
    IN  IF whole \/ r.a.phase \in {"int", "frac", "exp"} THEN r.a ELSE r.good

\* the value of a reading: NaN unless it is that of a literal
Value(a) ==
    IF a.phase \notin {"int", "frac", "exp"} THEN NaN
    ELSE Double(a.sign, a.digits,
                (IF a.point < 0 THEN Len(a.digits) ELSE a.point) + a.esign * a.exp)

\* 1 or -1 when s is Infinity with an optional sign (whole), or starts with
\* it, and 0 otherwise
InfinitySign(s, whole) ==
    LET from == IF s # <<>> /\ s[1] \in {"+", "-"} THEN 2 ELSE 1
    IN  IF /\ IF whole THEN Len(s) = from + 7 ELSE Len(s) >= from + 7
           /\ SubSeq(s, from, from + 7) = <<"I", "n", "f", "i", "n", "i", "t", "y">>
        THEN (IF s[1] = "-" THEN -1 ELSE 1)
        ELSE 0

\* the value of s as a StrDecimalLiteral (whole), or of the longest prefix
\* of s that is one; NaN when there is none
StrDecimalLiteral(s, whole) ==
    IF InfinitySign(s, whole) # 0 THEN Infinity(InfinitySign(s, whole))
    ELSE Value(Scan(s, whole))

\* The digits lo to hi of ds, a sequence of decimal digits, times the radix
\* plus a carry below the radix: as many digits, and the carry out.  The
\* range is multiplied half by half, the lower half first; a half that
\* carries nothing over leaves the other to be multiplied alone.
RECURSIVE MulAdd(_, _, _, _, _)
MulAdd(ds, lo, hi, radix, carry) ==
    IF lo > hi THEN [digits |-> <<>>, carry |-> carry]
    ELSE IF lo = hi
    THEN [digits |-> <<(ds[lo] * radix + carry) % 10>>,
          carry  |-> (ds[lo] * radix + carry) \div 10]
    ELSE LET low  == MulAdd(ds, (lo + hi) \div 2 + 1, hi, radix, carry)
             high == IF low.carry = 0 THEN MulAdd(ds, lo, (lo + hi) \div 2, radix, 0)
                     ELSE MulAdd(ds, lo, (lo + hi) \div 2, radix, low.carry)
         IN  [digits |-> high.digits \o low.digits, carry |-> high.carry]

\* the decimal digits of the natural number that acc (decimal digits)
\* followed by the characters lo to hi of s, digits of the radix, spells.
\* The range is converted half by half; zeros ahead spell nothing.
RECURSIVE ToDecimal(_, _, _, _, _)
ToDecimal(s, lo, hi, radix, acc) ==
    IF lo > hi THEN acc
    ELSE IF lo = hi
    THEN LET r == MulAdd(acc, 1, Len(acc), radix, DigitValue(s[lo], radix))
         IN  DigitsOf(r.carry) \o r.digits
    ELSE LET left == ToDecimal(s, lo, (lo + hi) \div 2, radix, acc)
         IN  IF left = <<>> THEN ToDecimal(s, (lo + hi) \div 2 + 1, hi, radix, <<>>)
             ELSE ToDecimal(s, (lo + hi) \div 2 + 1, hi, radix, left)

\* the radix a NonDecimalIntegerLiteral announces (0x, 0o, 0b), 0 when s is
\* no such literal
RadixOf(s) ==
    IF Len(s) < 3 \/ s[1] # "0" THEN 0
    ELSE LET radix == CASE s[2] \in {"x", "X"} -> 16
                        [] s[2] \in {"o", "O"} -> 8
                        [] s[2] \in {"b", "B"} -> 2
                        [] OTHER -> 0
         IN  IF radix # 0 /\ AllDigits(SubSeq(s, 3, Len(s)), radix) THEN radix ELSE 0

\* Number(s), the StringToNumber of ECMAScript, for the characters s: the
\* white space at both ends is dropped; nothing left is 0; a literal of
\* radix 16, 8 or 2 (unsigned) or a decimal literal has its value
StringToNumber(s) ==
    LET t == TrimRight(TrimLeft(s, WhiteSpace), WhiteSpace)
    IN  IF t = <<>> THEN Zero
        ELSE IF RadixOf(t) # 0
        THEN LET ds == ToDecimal(t, 3, Len(t), RadixOf(t), <<>>)
             IN  Double(1, ds, Len(ds))
        ELSE StrDecimalLiteral(t, TRUE)

\* parseFloat(s): the white space ahead is dropped and the longest prefix
\* that is a decimal literal is read; what follows it is ignored
parseFloat(s) == StrDecimalLiteral(TrimLeft(s, WhiteSpace), FALSE)

\* the number Joi.number() makes of a value, convert being on by default:
\* a number is taken as it is, a string is converted with
\*     const number = parseFloat(value);
\*     value = (isNaN(number) || !isFinite(value)) ? NaN : number;
\* where isFinite converts the whole string with Number()
JoiNumber(x) ==
    IF x.k = "number" THEN x
    ELSE IF x.k # "string" THEN NaN
    ELSE LET number == parseFloat(x.s)
         IN  IF number = NaN \/ ~isFinite(StringToNumber(x.s)) THEN NaN ELSE number

\* the number the operator * makes of an operand
ToNumber(x) ==
    IF x.k = "number" THEN x
    ELSE IF x.k = "string" THEN StringToNumber(x.s)
    ELSE NaN

\* m * x for m = 1 or -1, as the sort reads it: by its sign (a NaN is read
\* as 0)
Times(m, x) ==
    LET number == ToNumber(x)
    IN  IF number.k = "number" THEN m * number.sign ELSE 0

----------------------------------------------------------------------------
(* Tag store.  A plain object is a record; a tag specification is a string,  *)
(* a plain object or something else (a number, say).                          *)

\* a string: s is the string itself where only its identity matters (a
\* name, a field), and the sequence of its characters where it is parsed
\* (an order)
Str(x) == [k |-> "string", s |-> x]
Obj(o) == [k |-> "object", o |-> o]
Other == [k |-> "other"]

\* normalizeTag(tag), lines 4-16
normalizeTag(tag) ==
    IF tag.k = "string"
    THEN [ok |-> TRUE, val |-> [name |-> tag.s]]
    ELSE IF tag.k = "object" /\ "name" \in DOMAIN tag.o
         THEN [ok |-> TRUE, val |-> tag.o]
         ELSE [ok |-> FALSE, val |-> <<>>]

\* index of service in the Map tagged (a sequence of entries), 0 when absent
IndexOf(tagged, service) ==
    IF \E i \in 1..Len(tagged) : tagged[i].service = service
    THEN CHOOSE i \in 1..Len(tagged) : tagged[i].service = service
    ELSE 0

pushTag_Merging(w, service, plainTag) ==
    LET tagged == w.tags[plainTag.name]
        i      == IndexOf(tagged, service)
    IN  IF i = 0
        THEN [w EXCEPT !.tags[plainTag.name] =
                 Append(tagged, [service |-> service, tags |-> <<plainTag>>])]
        ELSE [w EXCEPT !.tags[plainTag.name][i].tags = <<plainTag>>]

pushTag_Unshift(w, service, plainTag) ==
    LET tagged == w.tags[plainTag.name]
        i      == IndexOf(tagged, service)
    IN  IF i = 0
        THEN [w EXCEPT !.tags[plainTag.name] =
                 Append(tagged, [service |-> service, tags |-> <<plainTag>>])]
        ELSE [w EXCEPT !.tags[plainTag.name][i].tags = <<plainTag>> \o @]

\* the body of the loop of tag, lines 147-162: the Map of the tag name and
\* the list of the service are created on first use, the payload is pushed
pushTag(w, service, plainTag) ==
    LET tagged == w.tags[plainTag.name]
        i      == IndexOf(tagged, service)
    IN  IF i = 0
        THEN [w EXCEPT !.tags[plainTag.name] =
                 Append(tagged, [service |-> service, tags |-> <<plainTag>>])]
        ELSE [w EXCEPT !.tags[plainTag.name][i].tags = Append(@, plainTag)]

RECURSIVE tag_Atomic(_, _, _)
tag_Atomic(w, service, specs) ==
    IF specs = <<>>
    THEN Return(w, Container)
    ELSE IF \E i \in 1..Len(specs) : ~normalizeTag(specs[i]).ok
         THEN Throw(w, InvalidTag)
         ELSE tag_Atomic([pushTag(w, service, normalizeTag(Head(specs)).val)
                             EXCEPT !.tagHist =
                                 Append(@, [service |-> service,
                                            tag |-> normalizeTag(Head(specs)).val])],
                         service, Tail(specs))

\* tag(service, ...tags), lines 144-165: _.forEach over the specifications;
\* normalizeTag's throw ends the loop.  tagHist logs each payload pushed.
RECURSIVE tag(_, _, _)
tag(w, service, specs) ==
    IF specs = <<>>
    THEN Return(w, Container)
    ELSE LET n == normalizeTag(Head(specs))
         IN  IF ~n.ok
             THEN Throw(w, InvalidTag)
             ELSE tag([pushTag(w, service, n.val) EXCEPT !.tagHist =
                          Append(@, [service |-> service, tag |-> n.val])],
                      service, Tail(specs))

\* Definition.tags(...tags), lines 336-339:
\* this.container.tag(this.ID, ...tags); return this
Definition_tags(w, d, specs) ==
    Bind(tag(w, w.defs[d].ID, specs), LAMBDA w1, v : Return(w1, DefinitionRef(d)))

\* getTag(tagName), lines 172-174: the Map of the name, or a new empty Map
getTag(w, tagName) == w.tags[tagName]

RECURSIVE pairsOf_OncePerService(_)
pairsOf_OncePerService(tagMap) ==
    IF tagMap = <<>> THEN <<>>
    ELSE <<(<<Head(tagMap).service, Head(tagMap).tags[1]>>)>>
         \o pairsOf_OncePerService(Tail(tagMap))

\* the pairs of lines 211-216: every [service, tag], services in the Map's
\* order and the tags of a service in their list's order
RECURSIVE pairsOf(_)
pairsOf(tagMap) ==
    IF tagMap = <<>> THEN <<>>
    ELSE [i \in 1..Len(Head(tagMap).tags) |-> <<Head(tagMap).service, Head(tagMap).tags[i]>>]
         \o pairsOf(Tail(tagMap))

\* _.get(object, path, defaultValue)
lodashGet(object, path, defaultValue) ==
    IF path \in DOMAIN object THEN object[path] ELSE defaultValue

compare_Ascending(a, b, sortOptions) ==
    LET v1 == lodashGet(a[2], sortOptions.field.s, 0)
        v2 == lodashGet(b[2], sortOptions.field.s, 0)
    IN  IF v1 < v2 THEN Times(1, sortOptions.order)
        ELSE IF v1 > v2 THEN Times(-1, sortOptions.order) ELSE 0

\* the comparator of lines 218-226; sortOptions is the object the caller
\* gave, so an order given as a string is converted by the multiplication
compare(a, b, sortOptions) ==
    LET v1 == lodashGet(a[2], sortOptions.field.s, 0)
        v2 == lodashGet(b[2], sortOptions.field.s, 0)
    IN  IF v1 < v2 THEN Times(-1, sortOptions.order)
        ELSE IF v1 > v2 THEN Times(1, sortOptions.order) ELSE 0

\* Array.prototype.sort(compare): a stable sort (ECMAScript 2019), here by
\* insertion; x goes before the first element that compares greater than it
insert_Unstable(sorted, x, sortOptions) ==
    LET later == {i \in 1..Len(sorted) : compare(sorted[i], x, sortOptions) >= 0}
        at    == IF later = {} THEN Len(sorted) + 1
                 ELSE CHOOSE i \in later : \A j \in later : i <= j
    IN  SubSeq(sorted, 1, at - 1) \o <<x>> \o SubSeq(sorted, at, Len(sorted))

insert(sorted, x, sortOptions) ==
    LET later == {i \in 1..Len(sorted) : compare(sorted[i], x, sortOptions) > 0}
        at    == IF later = {} THEN Len(sorted) + 1
                 ELSE CHOOSE i \in later : \A j \in later : i <= j
    IN  SubSeq(sorted, 1, at - 1) \o <<x>> \o SubSeq(sorted, at, Len(sorted))

RECURSIVE sort(_, _, _)
sort(pairs, n, sortOptions) ==
    IF n = 0 THEN <<>>
    ELSE insert(sort(pairs, n - 1, sortOptions), pairs[n], sortOptions)

\* getSortedTags(tagName, sortFunction), lines 243-245, with the sort
\* function of lines 210-226.  The comparator converts sortOptions.order
\* at every comparison, each time to the same number; it is converted once
\* here and the comparator multiplies by that number.
getSortedTags(w, tagName, sortOptions) ==
    LET pairs == pairsOf(getTag(w, tagName))
        order == ToNumber(sortOptions.order)
    IN  sort(pairs, Len(pairs), [sortOptions EXCEPT !.order = order])

\* sortOptions given as an array, lines 190-195
fromArray(a) ==
    IF Len(a) >= 2 THEN [field |-> a[1], order |-> a[2]]
    ELSE IF Len(a) = 1 THEN [field |-> a[1]]
    ELSE <<>>

\* Joi.validate(sortOptions, schema, callback) of lines 197-208, as the Joi
\* that `require('joi')` finds decides it: a Joi that has this function, the
\* one the call needs (up to version 15).  TRUE when the callback is given
\* no error.  The schema is an object with no key but field and order;
\* field a required string (the empty string is no valid string); order a
\* required number, or a string that converts to one, that is -1 at the
\* least (min), 1 at the most (max) and not 0 (invalid), as doubles compare.
validate(o) ==
    /\ DOMAIN o \subseteq {"field", "order"}
    /\ "field" \in DOMAIN o
    /\ o.field.k = "string"
    /\ o.field.s # ""
    /\ "order" \in DOMAIN o
    /\ LET order == JoiNumber(o.order)
       IN  /\ order.k = "number"
           /\ order.sign >= 0 \/ WithinOne(order)
           /\ order.sign <= 0 \/ WithinOne(order)
           /\ order.sign # 0

overTags_KeepingOn(w, tagName, so) ==
    IF so.k = "none"
    THEN [w |-> w, ok |-> TRUE, err |-> "", val |-> pairsOf(getTag(w, tagName))]
    ELSE LET sortOptions == IF so.k = "array" THEN fromArray(so.a) ELSE so.o
         IN  IF /\ "field" \in DOMAIN sortOptions
                /\ "order" \in DOMAIN sortOptions
                /\ sortOptions.field.k = "string"
             THEN [w |-> w, ok |-> TRUE, err |-> "",
                   val |-> getSortedTags(w, tagName, sortOptions)]
             ELSE [w |-> w, ok |-> FALSE, err |-> InvalidSortOptions, val |-> <<>>]

\* overTags(tagName, sortOptions, callback), lines 183-236, with the
\* callback (serviceId, tag) => visited.push([serviceId, tag]); the value
\* of the completion is visited.  so is [k |-> "none"] when the callback is
\* the second argument or sortOptions is not given.  The callback of
\* Joi.validate throws the error it is given, lines 203-207, before
\* getSortedTags is called.
overTags(w, tagName, so) ==
    IF so.k = "none"
    THEN [w |-> w, ok |-> TRUE, err |-> "", val |-> pairsOf(getTag(w, tagName))]
    ELSE LET sortOptions == IF so.k = "array" THEN fromArray(so.a) ELSE so.o
         IN  IF ~validate(sortOptions)
             THEN [w |-> w, ok |-> FALSE, err |-> InvalidSortOptions, val |-> <<>>]
             ELSE [w |-> w, ok |-> TRUE, err |-> "",
                   val |-> getSortedTags(w, tagName, sortOptions)]

----------------------------------------------------------------------------
(* The state as a world record, and back *)

W ==
    [deepClone |-> deepClone, cloneMapStack |-> cloneMapStack,
     definitions |-> definitions, labels |-> labels,
     tags |-> tags, accessors |-> accessors, defs |-> defs, closures |-> closures,
     heap |-> heap, hist |-> hist, tagHist |-> tagHist, trace |-> <<>>,
     ids |-> <<>>, nested |-> <<>>, depth |-> 0, deepest |-> 0, room |-> StackLimit]

Commit(w) ==
    /\ deepClone' = w.deepClone
    /\ cloneMapStack' = w.cloneMapStack
    /\ definitions' = w.definitions
    /\ labels' = w.labels
    /\ tags' = w.tags
    /\ accessors' = w.accessors
    /\ defs' = w.defs
    /\ closures' = w.closures
    /\ heap' = w.heap
    /\ hist' = w.hist
    /\ tagHist' = w.tagHist

\* new Pimple(undefined, deepClone), lines 24-32, with the lodash that
\* `require('lodash')` finds; only _.cloneDeep clones a Map, so a container
\* that clones shallowly is taken with one lodash
Init ==
    /\ deepClone \in BOOLEAN
    /\ cloneMapStack \in IF deepClone THEN {"shared", "own"} ELSE {"shared"}
    /\ definitions = [i \in Ids \cup OperationIds |-> 0]
    /\ labels = [l \in LabelNames |-> NoCallback]
    /\ tags = [n \in TagNames |-> <<>>]
    /\ accessors = <<>>
    /\ defs = <<>>
    /\ closures = <<>>
    /\ heap = <<>>
    /\ hist = <<>>
    /\ tagHist = <<>>
    /\ last = [op |-> "new"]
    /\ steps = 0

\* The state after construction where no operation of the specification
\* registers the container as a service: _.cloneDeep then never meets the
\* _definitions Map, the lodashes do not differ, and one stands for both.
InitNoContainerService ==
    /\ Init
    /\ cloneMapStack = "shared"

----------------------------------------------------------------------------
(* Inputs of the registry operations *)

\* the raw specifications callers register: the primitive 'A', an object
\* literal {child: []} and the factory function () => []
RawInputs == {"prim", "object", "factory"}

\* the container itself, given as a raw specification
ContainerInput == "container"

\* the caller evaluates the raw specification; an object literal allocates
\* the nested array, then the object
Literal(w, raw) ==
    CASE raw = "prim" -> [w |-> w, val |-> Prim(1)]
      [] raw = "factory" -> [w |-> w, val |-> Factory(1)]
      [] raw = ContainerInput -> [w |-> w, val |-> Container]
      [] raw = "object" ->
            [w |-> [w EXCEPT !.heap = @ \o <<NewObject(<<>>, 0),
                                             NewObject(<<>>, Len(w.heap) + 1)>>],
             val |-> Ref(Len(w.heap) + 2)]

\* the argument lists of addLabel: one or two label names
LabelLists == {<<"L1">>, <<"L2">>, <<"L2", "L1">>}

RECURSIVE SumGets(_)
SumGets(h) == IF h = <<>> THEN 0 ELSE Head(h).gets + SumGets(Tail(h))

----------------------------------------------------------------------------
(* Actions of the registry and the resolution engine *)

\* The room the call stack has when the caller calls an operation: it
\* depends on how deep the caller is itself, which the container never
\* learns.  A round of a resolution that re-enters itself takes three
\* frames (the resolve function, the callback of forEach, the callback of
\* the label), so three rooms in a row let the stack run out at every call
\* of the round.
StackRooms == StackLimit..(StackLimit + 2)

\* The completions of an operation F of the world, one for every room the
\* stack may have.  They are one and the same when, with the largest room,
\* the frames held stay below the least room.
Outcomes(F(_)) ==
    LET r == F([W EXCEPT !.room = StackLimit + 2])
    IN  IF r.w.deepest < StackLimit THEN {r}
        ELSE {F([W EXCEPT !.room = room]) : room \in StackRooms}

Done(op, id, arg, r) ==
    [op |-> op, id |-> id, arg |-> arg, ok |-> r.ok, err |-> r.err, val |-> r.val,
     trace |-> r.w.trace, ids |-> r.w.ids, nested |-> r.w.nested,
     deepest |-> r.w.deepest]

Set ==
    \E id \in Ids, raw \in RawInputs :
        /\ Len(defs) < MaxDefs
        /\ LET l == Literal(W, raw)
               r == set(l.w, id, l.val, <<>>)
           IN  Commit(r.w) /\ last' = Done("set", id, l.val, r)

SetShared ==
    \E id \in Ids, raw \in RawInputs :
        /\ Len(defs) < MaxDefs
        /\ LET l == Literal(W, raw)
               r == setShared(l.w, id, l.val, <<>>)
           IN  Commit(r.w) /\ last' = Done("setShared", id, l.val, r)

DefineLabel ==
    \E name \in LabelNames :
        LET r == defineLabel(W, name, CallbackFor(name))
        IN  Commit(r.w) /\ last' = Done("defineLabel", name, CallbackFor(name), r)

AddLabel ==
    \E id \in Ids, names \in LabelLists :
        LET r == addLabel(W, id, names)
        IN  Commit(r.w) /\ last' = Done("addLabel", id, names, r)

\* D.label(name, callback), for a Definition D the caller holds (from
\* create or getDefinition); D.label(name) is what addLabel calls
DefinitionLabel ==
    \E d \in 1..Len(defs), name \in LabelNames :
        LET r == label(W, d, name, CallbackFor(name))
        IN  Commit(r.w) /\ last' = Done("label", defs[d].ID, <<d, name, CallbackFor(name)>>, r)

GetDefinition ==
    \E id \in Ids :
        LET r == getDefinition(W, id)
        IN  Commit(r.w) /\ last' = Done("getDefinition", id, <<>>, r)

GetResolver ==
    \E id \in Ids :
        LET r == getResolver(W, id)
        IN  Commit(r.w) /\ last' = Done("getResolver", id, <<>>, r)

\* get(id); the history of the Definition resolved notes the call, the labels
\* attached when the first call was made and the value returned
Get ==
    \E id \in Ids :
        /\ SumGets(hist) < MaxGets
        /\ \E r \in Outcomes(LAMBDA w : get(w, id)) :
               LET d  == definitions[id]
                   w1 == IF d = 0 THEN r.w
                         ELSE [r.w EXCEPT
                                 !.hist[d].gets = @ + 1,
                                 !.hist[d].rets = IF r.ok THEN Append(@, r.val) ELSE @,
                                 !.hist[d].first = IF hist[d].gets = 0
                                                   THEN defs[d].labels ELSE @]
               IN  Commit(w1) /\ last' = [Done("get", id, <<>>, r) EXCEPT !.arg = d]

\* one more registry operation is called
Tick == steps < MaxOps /\ steps' = steps + 1

Next ==
    \/ Tick /\ Set
    \/ Tick /\ SetShared
    \/ Tick /\ DefineLabel
    \/ Tick /\ AddLabel
    \/ Tick /\ GetDefinition
    \/ Tick /\ GetResolver
    \/ Tick /\ Get

Spec == InitNoContainerService /\ [][Next]_vars

----------------------------------------------------------------------------
(* Actions on Definitions the caller builds and passes itself *)

\* the values that are no Definition passed to setRaw: a string, undefined
NonDefinitions == {Prim(1), Undefined}

\* create(raw, undefined, argument): the argument is left out or is a
\* Definition the caller holds
Create ==
    \E raw \in RawInputs \cup {ContainerInput}, arg \in {Undefined} \cup {DefinitionRef(d) : d \in 1..Len(defs)} :
        /\ Len(defs) < MaxDefs + 1
        /\ LET l == Literal(W, raw)
               r == create(l.w, l.val, Undefined, arg)
           IN  Commit(r.w) /\ last' = Done("create", "", <<l.val, arg>>, r)

\* setRaw(id, x): x is a Definition the caller holds, or no Definition
SetRaw ==
    \E id \in Ids, x \in NonDefinitions \cup {DefinitionRef(d) : d \in 1..Len(defs)} :
        \E r \in Outcomes(LAMBDA w : setRaw(w, id, x, <<>>)) :
            Commit(r.w) /\ last' = Done("setRaw", id, x, r)

\* set(id, D): a Definition the caller holds as the raw specification
SetNested ==
    \E id \in Ids, d \in 1..Len(defs) :
        /\ Len(defs) < MaxDefs + 1
        /\ \E r \in Outcomes(LAMBDA w : set(w, id, DefinitionRef(d), <<>>)) :
               Commit(r.w) /\ last' = Done("set", id, DefinitionRef(d), r)

\* the configurators passed to set: none,
\* definition => { definition.shared = true }, label('L2', push)
ConfiguratorLists == {<<>>, <<Share>>, <<LabelWith("L2", CallbackFor("L2"))>>}

\* set(id, raw, ...configurators)
SetConfigured ==
    \E id \in Ids, raw \in RawInputs, configurators \in ConfiguratorLists :
        /\ Len(defs) < MaxDefs + 1
        /\ LET l == Literal(W, raw)
               r == set(l.w, id, l.val, configurators)
           IN  /\ Commit(r.w)
               /\ last' = Done("set", id, l.val, r) @@ [configurators |-> configurators]

\* setShared(id, raw) and
\* setShared(id, raw, definition => { definition.shared = false })
SetSharedConfigured ==
    \E id \in Ids, raw \in RawInputs, configures \in {<<>>, <<Unshare>>} :
        /\ Len(defs) < MaxDefs + 1
        /\ LET l == Literal(W, raw)
               r == setShared(l.w, id, l.val, configures)
           IN  /\ Commit(r.w)
               /\ last' = Done("setShared", id, l.val, r) @@ [configurators |-> configures]

\* D.compile(id), called by the caller
DefinitionCompile ==
    \E d \in 1..Len(defs), id \in Ids :
        \E r \in Outcomes(LAMBDA w : compile(w, d, id)) :
            Commit(r.w) /\ last' = Done("compile", id, d, r)

\* D.configure(E), for two Definitions D and E the caller holds; what
\* configure returns is dropped, D.raw stays
DefinitionConfigure ==
    \E d \in 1..Len(defs), e \in 1..Len(defs) :
        LET r == configure(W, d, DefinitionRef(e))
        IN  Commit(r.w) /\ last' = Done("configure", defs[d].ID, <<d, e>>, r)

\* an array, and a function createResolver returned, as values
Array(items) == [t |-> "array", v |-> items]
Inner(f) == [t |-> "inner", v |-> f]

\* D.arguments(), called by the caller
DefinitionArguments ==
    \E d \in 1..Len(defs) :
        \E r \in Outcomes(LAMBDA w : Bind(arguments(w, d),
                                         LAMBDA w1, a : Return(w1, Array(a)))) :
            Commit(r.w) /\ last' = Done("arguments", defs[d].ID, d, r)

\* D.createResolver(D.raw), called by the caller
DefinitionCreateResolver ==
    \E d \in 1..Len(defs) :
        \E r \in Outcomes(LAMBDA w : Bind(createResolver(w, d, defs[d].raw),
                                         LAMBDA w1, f : Return(w1, Inner(f)))) :
            Commit(r.w) /\ last' = Done("createResolver", defs[d].ID, d, r)

\* D.shared = val, after D was built
DefinitionShared ==
    \E d \in 1..Len(defs), val \in BOOLEAN :
        LET r == Return(shared(W, d, val), Undefined)
        IN  Commit(r.w) /\ last' = Done("shared", defs[d].ID, <<d, val>>, r)

\* resolve(), for the function the preceding getResolver(id) returned
CallResolver ==
    /\ last.op = "getResolver"
    /\ last.ok
    /\ SumGets(hist) < MaxGets
    /\ \E r \in Outcomes(LAMBDA w : invoke(w, last.val.v)) :
           LET d  == closures[last.val.v].def
               w1 == [r.w EXCEPT
                        !.hist[d].gets = @ + 1,
                        !.hist[d].rets = IF r.ok THEN Append(@, r.val) ELSE @,
                        !.hist[d].first = IF hist[d].gets = 0 THEN defs[d].labels ELSE @]
           IN  Commit(w1) /\ last' = [Done("resolve", defs[d].ID, <<>>, r) EXCEPT !.arg = d]

\* the caller builds Definitions with create and registers them itself
NextDefs ==
    \/ Tick /\ Create
    \/ Tick /\ SetRaw
    \/ Tick /\ SetNested
    \/ Tick /\ DefineLabel
    \/ Tick /\ AddLabel
    \/ Tick /\ DefinitionLabel
    \/ Tick /\ DefinitionCompile
    \/ Tick /\ DefinitionShared
    \/ Tick /\ DefinitionConfigure
    \/ Tick /\ DefinitionArguments
    \/ Tick /\ DefinitionCreateResolver
    \/ Tick /\ GetResolver
    \/ Tick /\ CallResolver
    \/ Tick /\ Get

SpecDefs == Init /\ [][NextDefs]_vars

\* one more operation is called, in the runs of one operation less
ShortTick == steps < MaxOps - 1 /\ steps' = steps + 1

\* the operation called is about the service 'a' (or defines a label)
OneService == last'.op = "defineLabel" \/ last'.id = "a"

\* the caller registers and replaces one service, with and without
\* configurators
NextShared ==
    \/ ShortTick /\ SetConfigured /\ OneService
    \/ ShortTick /\ SetSharedConfigured /\ OneService
    \/ ShortTick /\ DefineLabel
    \/ ShortTick /\ AddLabel /\ OneService
    \/ ShortTick /\ DefinitionShared /\ OneService
    \/ ShortTick /\ Get /\ OneService

SpecShared == InitNoContainerService /\ [][NextShared]_vars

\* the caller registers one service, again and again, labels its
\* Definitions through the container and through the Definition, and
\* compiles them again
NextLabels ==
    \/ Tick /\ Set /\ OneService
    \/ Tick /\ SetShared /\ OneService
    \/ Tick /\ DefineLabel
    \/ Tick /\ AddLabel /\ OneService
    \/ Tick /\ DefinitionLabel /\ OneService
    \/ Tick /\ DefinitionCompile /\ OneService
    \/ Tick /\ Get /\ OneService

SpecLabels == InitNoContainerService /\ [][NextLabels]_vars

\* defineLabel(name, (instance, container, id) => container.get(id))
DefineReentrant ==
    \E name \in LabelNames :
        LET r == defineLabel(W, name, Reentrant)
        IN  Commit(r.w) /\ last' = Done("defineLabel", name, Reentrant, r)

\* the caller registers one service and labels it, with callbacks that
\* resolve the service they are applied for among them
NextReenter ==
    \/ Tick /\ Set
    \/ Tick /\ SetShared
    \/ Tick /\ DefineLabel
    \/ Tick /\ DefineReentrant
    \/ Tick /\ AddLabel
    \/ Tick /\ Get

SpecReenter == InitNoContainerService /\ [][NextReenter]_vars

\* the ids callers use when they also name services after operations
NamedIds == {"a"} \cup OperationIds

\* container.set(id, raw) and container.set(id, container)
SetNamed ==
    \E id \in NamedIds, raw \in RawInputs \cup {ContainerInput} :
        /\ Len(defs) < MaxDefs + 1
        /\ \E r \in Outcomes(LAMBDA w :
                   Bind(property(w, "set"),
                        LAMBDA w1, f : callSet(w1, id, f, Literal(w1, raw), <<>>))) :
               Commit(r.w) /\ last' = Done("set", id, raw, r)

\* the argument lists of Definition.tags: a string, and a string followed
\* by a number
DefinitionTagLists == {<<Str("t")>>, <<Str("u"), Other>>}

\* D.tags(...specs)
DefinitionTags ==
    \E d \in 1..Len(defs), specs \in DefinitionTagLists :
        /\ Len(tagHist) + Len(specs) <= MaxPayloads
        /\ LET r == Definition_tags(W, d, specs)
           IN  Commit(r.w) /\ last' = Done("tags", defs[d].ID, <<d, specs>>, r)

\* set(id, raw, tag('t')) and set(id, raw, tag('u', 5))
SetTagged ==
    \E id \in NamedIds, raw \in RawInputs, specs \in DefinitionTagLists :
        /\ Len(defs) < MaxDefs + 1
        /\ Len(tagHist) + Len(specs) <= MaxPayloads
        /\ \E r \in Outcomes(LAMBDA w :
                   Bind(property(w, "set"),
                        LAMBDA w1, f : callSet(w1, id, f, Literal(w1, raw),
                                               <<TagWith(specs)>>))) :
               Commit(r.w) /\ last' = Done("set", id, raw, r)

\* container.get(id); the history is kept as in Get
GetNamed ==
    \E id \in NamedIds :
        /\ SumGets(hist) < MaxGets
        /\ \E r \in Outcomes(LAMBDA w : callGet(w, id)) :
               LET d  == definitions[id]
                   w1 == IF d = 0 THEN r.w
                         ELSE [r.w EXCEPT
                                 !.hist[d].gets = @ + 1,
                                 !.hist[d].rets = IF r.ok THEN Append(@, r.val) ELSE @,
                                 !.hist[d].first = IF hist[d].gets = 0
                                                   THEN defs[d].labels ELSE @]
               IN  Commit(w1) /\ last' = [Done("get", id, <<>>, r) EXCEPT !.arg = d]

\* the caller registers services, some under the names of operations and
\* some with tags, and gets them
NextNamed ==
    \/ Tick /\ SetNamed
    \/ Tick /\ SetTagged
    \/ Tick /\ DefinitionTags
    \/ Tick /\ GetNamed

SpecNamed == Init /\ [][NextNamed]_vars

----------------------------------------------------------------------------
(* Inputs and actions of the tag subsystem *)

\* the tag specifications callers pass: strings, plain objects with a name
\* (with and without the sort field), a plain object without a name, a
\* number.  Each is written as a literal: an object is passed once and the
\* caller keeps no reference to write through afterwards, so the store,
\* which holds the object given (line 11), is held here by value.
TagSpecs ==
    {Str(n) : n \in TagNames}
    \cup {Obj([name |-> "t", priority |-> v]) : v \in FieldVals}
    \cup {Obj([priority |-> 1]), Other}

\* the argument lists of tag: up to two specifications
TagLists ==
    {<<>>} \cup {<<x>> : x \in TagSpecs} \cup {<<x, y>> : x \in TagSpecs, y \in TagSpecs}

\* the sortOptions callers pass to have the pairs visited: none (the
\* callback second), and well-formed objects and arrays, the order a number
\* or a numeral
SortInputs ==
    {[k |-> "none"]}
    \cup {[k |-> "object", o |-> [field |-> Str(SortField), order |-> Num(n)]] :
              n \in {-1, 1}}
    \cup {[k |-> "object", o |-> [field |-> Str(SortField), order |-> Str(<<"1">>)]]}
    \cup {[k |-> "array", a |-> <<Str(SortField), Num(n)>>] : n \in {-1, 1}}

\* the strings given as order that probe the conversion: 'x', '1.0',
\* '0.5', '+1', ' 1', '1e1', '0x1', '1x' and ''; '1' after a form feed and
\* after a no-break space; and numerals next to the bounds of the schema:
\* 2.47032822920623272088284396434110001e-324, below 2^-1075, and
\* '2.5e-324', above it; '1.0000000000000001', below 1 + 2^-53, and
\* '1.0000000000000002', above it
OrderStrings ==
    {<<"x">>, <<"1", ".", "0">>, <<"0", ".", "5">>, <<"+", "1">>, <<" ", "1">>,
     <<"1", "e", "1">>, <<"0", "x", "1">>, <<"1", "x">>, <<>>,
     <<"\f", "1">>, <<"U+00A0", "1">>,
     <<"2", ".", "4", "7", "0", "3", "2", "8", "2", "2", "9", "2", "0", "6",
       "2", "3", "2", "7", "2", "0", "8", "8", "2", "8", "4", "3", "9", "6",
       "4", "3", "4", "1", "1", "0", "0", "0", "1", "e", "-", "3", "2", "4">>,
     <<"2", ".", "5", "e", "-", "3", "2", "4">>,
     <<"1", ".", "0", "0", "0", "0", "0", "0", "0", "0", "0", "0", "0", "0",
       "0", "0", "0", "1">>,
     <<"1", ".", "0", "0", "0", "0", "0", "0", "0", "0", "0", "0", "0", "0",
       "0", "0", "0", "2">>}

\* the sortOptions that probe the schema: objects and arrays that break it
\* in one way each (an order of 0, beyond 1 or no numeral, a key missing or
\* unknown, a field that is a number or the empty string), and the
\* well-formed ones next to them
SchemaInputs ==
    {[k |-> "object", o |-> [field |-> Str(SortField), order |-> Num(n)]] :
        n \in {0, 1, 2}}
    \cup {[k |-> "object", o |-> [field |-> Str(SortField), order |-> Str(x)]] :
              x \in OrderStrings}
    \cup {[k |-> "object", o |-> [order |-> Num(1)]],
          [k |-> "object", o |-> [field |-> Str(SortField)]],
          [k |-> "object", o |-> [field |-> Str(SortField), order |-> Num(1),
                                  extra |-> Num(1)]],
          [k |-> "object", o |-> [field |-> Num(5), order |-> Num(1)]],
          [k |-> "object", o |-> [field |-> Str(""), order |-> Num(1)]]}
    \cup {[k |-> "array", a |-> <<Str(SortField), Num(0)>>],
          [k |-> "array", a |-> <<Str(SortField)>>]}

Tag ==
    \E service \in Ids, specs \in TagLists :
        /\ Len(tagHist) + Len(specs) <= MaxPayloads
        /\ LET r == tag(W, service, specs)
           IN  Commit(r.w) /\ last' = Done("tag", service, specs, r)

GetTag ==
    \E name \in TagNames :
        /\ UNCHANGED <<deepClone, cloneMapStack, definitions, labels, tags, accessors,
                       defs, closures,
                       heap, hist, tagHist>>
        /\ last' = [op |-> "getTag", id |-> name, arg |-> <<>>, ok |-> TRUE, err |-> "",
                    val |-> getTag(W, name), trace |-> <<>>,
                    ids |-> <<>>, nested |-> <<>>, deepest |-> 0]

OverTags ==
    \E name \in TagNames, so \in SortInputs :
        LET r == overTags(W, name, so)
        IN  Commit(r.w) /\ last' = Done("overTags", name, so, r)

NextTags ==
    \/ Tag /\ UNCHANGED steps
    \/ GetTag /\ UNCHANGED steps
    \/ OverTags /\ UNCHANGED steps

SpecTags == InitNoContainerService /\ [][NextTags]_vars

\* overTags(name, sortOptions, callback), for the sortOptions that probe
\* the schema
OverTagsSchema ==
    \E name \in TagNames, so \in SchemaInputs :
        LET r == overTags(W, name, so)
        IN  Commit(r.w) /\ last' = Done("overTags", name, so, r)

\* the caller tags one service and, after tagging, visits the pairs with
\* sortOptions of all sorts (a visit changes nothing that a visit right
\* after it could read)
NextSchema ==
    \/ Tag /\ OneService /\ UNCHANGED steps
    \/ last.op # "overTags" /\ OverTagsSchema /\ UNCHANGED steps

SpecSchema == InitNoContainerService /\ [][NextSchema]_vars

----------------------------------------------------------------------------
(* Vocabulary of the properties of the registry and the resolution engine *)

\* the handles of the Definitions created so far
Handles == 1..Len(defs)

\* the elements of a sequence
Range(q) == {q[i] : i \in 1..Len(q)}

\* chai's eql on two objects of the heap
RECURSIVE deepEqual(_, _, _)
deepEqual(h, a, b) ==
    /\ h[a].items = h[b].items
    /\ (h[a].child = 0) = (h[b].child = 0)
    /\ h[a].child # 0 => deepEqual(h, h[a].child, h[b].child)

\* the labels attached to d down to the first one without a callback, each
\* paired with d: the callbacks one run of the wrapped resolver executes
RECURSIVE Runnable(_, _)
Runnable(d, names) ==
    IF names = <<>> \/ labels[Head(names)] = NoCallback THEN <<>>
    ELSE <<(<<d, Head(names)>>)>> \o Runnable(d, Tail(names))

\* d has an attached label without a callback
Unlabelled(d) == \E l \in Range(defs[d].labels) : labels[l] = NoCallback

\* the last operation was a get that reached Definition d
GotDef(d) == last.op = "get" /\ last.arg = d

\* the label names whose callback mutates the instance
Pushing == {l \in LabelNames : CallbackFor(l) = "push"}

\* the names of a list that are not attached yet, each once, in list order
RECURSIVE Fresh(_, _)
Fresh(have, names) ==
    IF names = <<>> THEN <<>>
    ELSE IF Head(names) \in Range(have) THEN Fresh(have, Tail(names))
         ELSE <<Head(names)>> \o Fresh(Append(have, Head(names)), Tail(names))

----------------------------------------------------------------------------
(* C1 *)

\* C1, as claimed: for every service registered with setShared, all the get
\* calls that returned have returned the identical value, and once a get has
\* returned, each label attached before the first get (and having a
\* callback) has had its callback executed exactly once in total.
C1_SharedOnce ==
    \A d \in Handles :
        (defs[d].shared /\ hist[d].rets # <<>>) =>
            /\ \A i, j \in 1..Len(hist[d].rets) : hist[d].rets[i] = hist[d].rets[j]
            /\ \A l \in Range(hist[d].first) :
                  labels[l] # NoCallback => hist[d].called[l] = 1

----------------------------------------------------------------------------
(* C2 *)

\* C2, as claimed: for every non-shared service, after n get calls each
\* attached label's callback has run exactly n times.
C2_Original ==
    \A d \in Handles :
        ~defs[d].shared =>
            \A l \in Range(defs[d].labels) : hist[d].called[l] = hist[d].gets

\* C2, amended: for every non-shared service, a get call that returns
\* normally has executed the callback of every label attached at that moment
\* exactly once, and a get call that raises label-not-defined has executed
\* only the callbacks of the labels attached ahead of the undefined one; so
\* after n get calls a label's callback has run at most n times, and exactly
\* n times when it was attached before the first get and all n calls
\* returned normally.
C2_PerCall ==
    [][ \A d \in Handles :
            (GotDef(d)' /\ ~defs[d].shared) =>
                /\ \A l \in LabelNames :
                      hist'[d].called[l] = hist[d].called[l]
                          + (IF <<d, l>> \in Range(Runnable(d, defs[d].labels))
                             THEN 1 ELSE 0)
                /\ last'.ok => \A l \in Range(defs[d].labels) :
                                   hist'[d].called[l] = hist[d].called[l] + 1 ]_vars

C2_Total ==
    \A d \in Handles :
        ~defs[d].shared =>
            /\ \A l \in LabelNames : hist[d].called[l] <= hist[d].gets
            /\ Len(hist[d].rets) = hist[d].gets =>
                   \A l \in Range(hist[d].first) : hist[d].called[l] = hist[d].gets

C2_EveryGetRunsLabels == C2_PerCall /\ []C2_Total

\* a non-shared service with an attached label has been resolved twice, both
\* calls returning normally, and the label's callback has run twice
C2_Witness ==
    \E d \in Handles :
        /\ ~defs[d].shared
        /\ hist[d].gets = 2
        /\ Len(hist[d].rets) = 2
        /\ \E l \in Range(defs[d].labels) : hist[d].called[l] = 2

----------------------------------------------------------------------------
(* C3 *)

\* C3, as claimed: for every non-shared object-valued service, with or
\* without labels attached, the values get has returned are distinct
\* references, distinct from the original spec object, and deeply equal to
\* each other and to the original spec object.
C3_Original ==
    \A d \in Handles :
        (~defs[d].shared /\ defs[d].raw.t = "ref") =>
            \A i \in 1..Len(hist[d].rets) :
                /\ hist[d].rets[i].t = "ref"
                /\ hist[d].rets[i].v # defs[d].raw.v
                /\ deepEqual(heap, hist[d].rets[i].v, defs[d].raw.v)
                /\ \A j \in 1..Len(hist[d].rets) :
                      /\ i # j => hist[d].rets[i].v # hist[d].rets[j].v
                      /\ deepEqual(heap, hist[d].rets[i].v, hist[d].rets[j].v)

\* C3, amended: for every non-shared object-valued service, the values get
\* has returned are distinct references, distinct from the original spec
\* object; they are deeply equal to each other and to the original spec
\* object as long as no label callback that mutates the instance has run
\* for the service (always so when no label is attached).  The value a get
\* returns is the copy of the spec object with what the label callbacks of
\* that call pushed to it.
C3_DistinctCopies ==
    \A d \in Handles :
        (~defs[d].shared /\ defs[d].raw.t = "ref") =>
            /\ \A i \in 1..Len(hist[d].rets) :
                  /\ hist[d].rets[i].t = "ref"
                  /\ hist[d].rets[i].v # defs[d].raw.v
                  /\ \A j \in 1..Len(hist[d].rets) :
                        i # j => hist[d].rets[i].v # hist[d].rets[j].v
            /\ (\A l \in Pushing : hist[d].called[l] = 0) =>
                  \A i, j \in 1..Len(hist[d].rets) :
                      /\ deepEqual(heap, hist[d].rets[i].v, defs[d].raw.v)
                      /\ deepEqual(heap, hist[d].rets[i].v, hist[d].rets[j].v)
            /\ (GotDef(d) /\ last.ok) =>
                  /\ heap[last.val.v].items =
                        heap[defs[d].raw.v].items
                        \o SelectSeq([i \in 1..Len(last.trace) |-> last.trace[i][2]],
                                     LAMBDA l : l \in Pushing)
                  /\ (heap[last.val.v].child = 0) = (heap[defs[d].raw.v].child = 0)
                  /\ heap[last.val.v].child # 0 =>
                        deepEqual(heap, heap[last.val.v].child, heap[defs[d].raw.v].child)

\* a non-shared object-valued service has been resolved twice with no
\* mutating callback, and once more (or instead) the last get returned a copy
C3_Witness ==
    \E d \in Handles :
        /\ ~defs[d].shared
        /\ defs[d].raw.t = "ref"
        /\ Len(hist[d].rets) = 2
        /\ \A l \in Pushing : hist[d].called[l] = 0
        /\ GotDef(d)

----------------------------------------------------------------------------
(* C4 *)

\* the labels of every Definition are free of duplicates
C4_NoDuplicates ==
    \A d \in Handles :
        \A i, j \in 1..Len(defs[d].labels) :
            defs[d].labels[i] = defs[d].labels[j] => i = j

\* addLabel on a registered id appends the names that are not attached yet,
\* in call order, and changes nothing for a name already attached
C4_FirstAttachment ==
    [][ \A id \in Ids :
            (last'.op = "addLabel" /\ last'.id = id /\ definitions[id] # 0) =>
                /\ defs'[definitions[id]].labels =
                      defs[definitions[id]].labels
                      \o Fresh(defs[definitions[id]].labels, last'.arg)
                /\ Range(last'.arg) \subseteq Range(defs[definitions[id]].labels)
                      => defs' = defs ]_vars

\* D.label(name, callback) appends the name to the labels of D unless it
\* is attached already, and then leaves the labels as they are; it changes
\* no other Definition
C4_LabelAttaches ==
    [][ last'.op = "label" =>
            LET d == last'.arg[1]
            IN  /\ defs'[d].labels =
                      defs[d].labels \o Fresh(defs[d].labels, <<last'.arg[2]>>)
                /\ \A e \in Handles \ {d} : defs'[e] = defs[e] ]_vars

\* the callbacks a get has executed are those of the attached labels, once
\* each, in attachment order (down to the first label without a callback,
\* where the call raises); none when a shared service returns its memoized
\* result
C4_RunInOrder ==
    \A d \in Handles :
        GotDef(d) =>
            /\ \/ last.trace = Runnable(d, defs[d].labels)
               \/ defs[d].shared /\ last.trace = <<>>
            /\ ~defs[d].shared => last.trace = Runnable(d, defs[d].labels)
            /\ (last.ok /\ last.trace # <<>>) =>
                  last.trace = [i \in 1..Len(defs[d].labels) |-> <<d, defs[d].labels[i]>>]

\* C4: the labels attached to a service form a duplicate-free sequence in
\* first-attachment order: attaching a label name that is already attached
\* changes nothing, and during one resolution the callbacks of the attached
\* labels run once each, in the order the names were first attached.
C4_LabelsOrdered ==
    []C4_NoDuplicates /\ C4_FirstAttachment /\ C4_LabelAttaches /\ []C4_RunInOrder

\* a get has run the callbacks of two attached labels, L2 attached first
C4_Witness ==
    \E d \in Handles :
        /\ GotDef(d)
        /\ last.ok
        /\ defs[d].labels = <<"L2", "L1">>
        /\ last.trace = <<(<<d, "L2">>), (<<d, "L1">>)>>

----------------------------------------------------------------------------
(* C5 *)

\* C5: get, getDefinition, getResolver and addLabel called with an id that
\* is not in the definitions map raise the 'service not defined' error,
\* return no value, and leave the definitions map, the tag store and the
\* label registry (and the Definitions and the heap) unchanged.
C5_UnknownIdRaises ==
    [][ (/\ last'.op \in {"get", "getDefinition", "getResolver", "addLabel"}
         /\ steps' = steps + 1
         /\ definitions[last'.id] = 0) =>
            /\ ~last'.ok
            /\ last'.err = ServiceNotDefined
            /\ last'.val = Undefined
            /\ last'.trace = <<>>
            /\ UNCHANGED <<definitions, tags, labels, defs, closures, heap, hist>> ]_vars

\* get was called with an id that is not registered while another id is,
\* and raised 'service not defined'
C5_Witness ==
    /\ last.op = "get"
    /\ definitions[last.id] = 0
    /\ \E id \in Ids : definitions[id] # 0
    /\ last.err = ServiceNotDefined

----------------------------------------------------------------------------
(* C6 *)

\* C6, as claimed: whenever get(id) is called while the service has an
\* attached label name with no callback in the label registry, the call
\* raises the 'label not defined' error and returns no value, on the second
\* and later calls too, for shared and transient services alike.  Stated for
\* the calls made before the service has ever returned a value.
C6_UndefinedLabelRaises ==
    \A d \in Handles :
        (/\ GotDef(d)
         /\ Unlabelled(d)
         /\ Len(hist[d].rets) = (IF last.ok THEN 1 ELSE 0)) =>
            /\ ~last.ok
            /\ last.err = LabelNotDefined

----------------------------------------------------------------------------
(* Vocabulary of the properties of the tag subsystem *)

\* the payloads stored for (tag name n, service s)
ListFor(tg, n, s) ==
    IF IndexOf(tg[n], s) = 0 THEN <<>> ELSE tg[n][IndexOf(tg[n], s)].tags

\* a tag specification tag() accepts, and the payload it stands for
WellFormed(x) == x.k = "string" \/ (x.k = "object" /\ "name" \in DOMAIN x.o)
PayloadOf(x) == IF x.k = "string" THEN [name |-> x.s] ELSE x.o

\* the payloads of the specifications ahead of the first malformed one
RECURSIVE Accepted(_)
Accepted(specs) ==
    IF specs = <<>> \/ ~WellFormed(Head(specs)) THEN <<>>
    ELSE <<PayloadOf(Head(specs))>> \o Accepted(Tail(specs))

\* the last operation was overTags with well-formed sortOptions / without
SortedVisit == last.op = "overTags" /\ last.arg.k # "none" /\ last.ok
PlainVisit == last.op = "overTags" /\ last.arg.k = "none"

\* the orders the claims speak of
One == Num(1)
MinusOne == Num(-1)

\* the order given in the sortOptions of the last overTags, when it is 1
\* or -1 (as a number or as a numeral); 0 when it is another
OrderGiven ==
    LET order == ToNumber(IF last.arg.k = "array" THEN last.arg.a[2]
                          ELSE last.arg.o.order)
    IN  IF order = One THEN 1 ELSE IF order = MinusOne THEN -1 ELSE 0

\* the sort key of a visited pair: payload[field], 0 when the payload lacks it
Key(pair) == IF SortField \in DOMAIN pair[2] THEN pair[2][SortField] ELSE 0

Ascending(visited) ==
    \A i, j \in 1..Len(visited) : i < j => Key(visited[i]) <= Key(visited[j])
Descending(visited) ==
    \A i, j \in 1..Len(visited) : i < j => Key(visited[i]) >= Key(visited[j])

\* how often x occurs in a sequence
Count(q, x) == Cardinality({i \in 1..Len(q) : q[i] = x})

\* the services of a sequence of log entries, each once, in order of first
\* occurrence
RECURSIVE FirstSeen(_, _)
FirstSeen(log, seen) ==
    IF log = <<>> THEN <<>>
    ELSE IF Head(log).service \in seen THEN FirstSeen(Tail(log), seen)
         ELSE <<Head(log).service>> \o FirstSeen(Tail(log), seen \cup {Head(log).service})

\* the pairs [s, payload] of the log entries of service s, in log order
PairsIn(log, s) ==
    LET mine == SelectSeq(log, LAMBDA e : e.service = s)
    IN  [i \in 1..Len(mine) |-> <<s, mine[i].tag>>]

RECURSIVE Grouped(_, _)
Grouped(log, services) ==
    IF services = <<>> THEN <<>>
    ELSE PairsIn(log, Head(services)) \o Grouped(log, Tail(services))

----------------------------------------------------------------------------
(* C7 *)

\* C7: tag(id, ...specs) normalizes each string spec s to the payload
\* {name: s} and appends every payload, in call order, to the list stored
\* for (payload name, id) (the payloads of the specs ahead of the first
\* malformed one, when there is one); it never merges or deduplicates, so
\* every list grows by exactly the payloads given for it.
C7_TagAppends ==
    [][ last'.op = "tag" =>
            /\ (\A i \in 1..Len(last'.arg) : WellFormed(last'.arg[i])) => last'.ok
            /\ \A n \in TagNames, s \in Ids :
                  ListFor(tags', n, s) =
                      ListFor(tags, n, s)
                      \o (IF s = last'.id
                          THEN SelectSeq(Accepted(last'.arg), LAMBDA p : p.name = n)
                          ELSE <<>>) ]_vars

\* tag was called with the string 't' for a service that already had a
\* payload under 't': the list holds the earlier payload, then {name: 't'}
C7_Witness ==
    /\ last.op = "tag"
    /\ last.ok
    /\ last.arg = <<Str("t")>>
    /\ Len(ListFor(tags, "t", last.id)) = 3
    /\ ListFor(tags, "t", last.id)[2] = [name |-> "t"]
    /\ ListFor(tags, "t", last.id)[3] = [name |-> "t"]

----------------------------------------------------------------------------
(* C8 *)

\* C8, as claimed: overTags with order = -1 invokes the callback on the
\* pairs in ascending order of payload[field], and with order = 1 in
\* descending order.
C8_Original ==
    SortedVisit =>
        /\ OrderGiven = -1 => Ascending(last.val)
        /\ OrderGiven = 1 => Descending(last.val)

\* C8, amended: overTags with order = -1 invokes the callback on the pairs
\* in descending order of payload[field], and with order = 1 in ascending
\* order of payload[field].
C8_MinusOneDescends ==
    SortedVisit =>
        /\ OrderGiven = -1 => Descending(last.val)
        /\ OrderGiven = 1 => Ascending(last.val)

\* overTags with order = -1 visited three pairs of strictly falling keys
C8_Witness ==
    /\ SortedVisit
    /\ OrderGiven = -1
    /\ Len(last.val) = 3
    /\ Key(last.val[1]) > Key(last.val[2])
    /\ Key(last.val[2]) > Key(last.val[3])

----------------------------------------------------------------------------
(* C9 *)

\* C9: overTags with order = -1 visits the pair with the largest field value
\* first and with order = 1 the smallest first; a payload lacking the field
\* is ranked as 0 (after the positive and ahead of the negative values under
\* order = -1, the reverse under order = 1); and every stored (serviceId,
\* payload) pair is visited exactly once, so a service with k payloads under
\* the tag is visited k times.
C9_AsTestsAssert ==
    SortedVisit =>
        /\ Len(last.val) > 0 =>
              \A i \in 1..Len(last.val) :
                  /\ OrderGiven = -1 => Key(last.val[1]) >= Key(last.val[i])
                  /\ OrderGiven = 1 => Key(last.val[1]) <= Key(last.val[i])
        /\ \A i, j \in 1..Len(last.val) :
              (/\ i < j
               /\ SortField \notin DOMAIN last.val[i][2]
               /\ SortField \in DOMAIN last.val[j][2]) =>
                  last.val[j][2][SortField] * OrderGiven >= 0
        /\ \A i, j \in 1..Len(last.val) :
              (/\ i < j
               /\ SortField \in DOMAIN last.val[i][2]
               /\ SortField \notin DOMAIN last.val[j][2]) =>
                  last.val[i][2][SortField] * OrderGiven <= 0
        /\ \A s \in Ids :
              /\ Cardinality({i \in 1..Len(last.val) : last.val[i][1] = s})
                    = Len(ListFor(tags, last.id, s))
              /\ \A k \in 1..Len(ListFor(tags, last.id, s)) :
                    Count(last.val, <<s, ListFor(tags, last.id, s)[k]>>)
                        = Count(ListFor(tags, last.id, s), ListFor(tags, last.id, s)[k])

\* overTags with order = -1 visited a service twice, with a payload lacking
\* the field of another service between its positive and negative payload
C9_Witness ==
    /\ SortedVisit
    /\ OrderGiven = -1
    /\ Len(last.val) = 3
    /\ last.val[1][1] = last.val[3][1]
    /\ last.val[2][1] # last.val[1][1]
    /\ SortField \notin DOMAIN last.val[2][2]
    /\ Key(last.val[1]) = 1
    /\ Key(last.val[3]) = -1

----------------------------------------------------------------------------
(* C10 *)

\* C10: overTags(name, cb) without sortOptions invokes cb once per stored
\* (serviceId, payload) pair, services in the order each was first tagged
\* with that name, and within one service payloads in the order they were
\* appended.
C10_PlainOrder ==
    PlainVisit =>
        LET log == SelectSeq(tagHist, LAMBDA e : e.tag.name = last.id)
        IN  /\ last.ok
            /\ last.val = Grouped(log, FirstSeen(log, {}))

\* overTags without sortOptions visited a service's two payloads, appended
\* before and after another service was tagged, ahead of that service's
C10_Witness ==
    /\ PlainVisit
    /\ Len(last.val) = 3
    /\ Len(tagHist) = 3
    /\ last.val[1] = <<tagHist[1].service, tagHist[1].tag>>
    /\ last.val[2] = <<tagHist[3].service, tagHist[3].tag>>
    /\ last.val[3] = <<tagHist[2].service, tagHist[2].tag>>
    /\ tagHist[1].service # tagHist[2].service
    /\ tagHist[1].tag # tagHist[3].tag

----------------------------------------------------------------------------
(* C11 *)

\* C11, as claimed: setRaw(id, x) with x that is not a Definition instance
\* raises the dedicated 'raw definition should be an instance of Definition'
\* error, not some other failure, and registers nothing under id.
C11_DedicatedError ==
    [][ (/\ last'.op = "setRaw"
         /\ steps' = steps + 1
         /\ last'.arg.t # "definition") =>
            /\ ~last'.ok
            /\ last'.err = RawNotDefinition
            /\ definitions' = definitions ]_vars

----------------------------------------------------------------------------
(* C12 *)

\* for every registered id i, getDefinition(i).id is i
C12_IdIsKey ==
    \A i \in Ids : definitions[i] # 0 => defs[definitions[i]].ID = i

\* the label callbacks of the Definition of i that ran during get(i) were
\* given i as the service id
C12_CallbacksGetId ==
    last.op = "get" =>
        \A k \in 1..Len(last.trace) :
            last.trace[k][1] = definitions[last.id] => last.ids[k] = last.id

\* the ID of a Definition never changes once assigned
C12_IdAssignedOnce ==
    [][ \A d \in Handles : defs[d].ID # "" => defs'[d].ID = defs[d].ID ]_vars

\* C12, as claimed: in every reachable state, for every registered id i,
\* getDefinition(i).id equals i and the label callbacks run during get(i)
\* receive i as the service id; a Definition's id never changes once
\* assigned, also when the same Definition is passed to setRaw a second time
\* under another id.
C12_IdStable == []C12_IdIsKey /\ []C12_CallbacksGetId /\ C12_IdAssignedOnce

----------------------------------------------------------------------------
(* C13 *)

\* the label names the configurators of a list attach
RECURSIVE Attached(_)
Attached(configurators) ==
    IF configurators = <<>> THEN <<>>
    ELSE (IF Head(configurators).c = "label" THEN <<Head(configurators).name>> ELSE <<>>)
         \o Attached(Tail(configurators))

\* set and setShared register a new Definition under id: no labels attached
\* but those its own configurators attach, its raw specification the one
\* given, its resolve function never called
C13_FreshDefinition ==
    [][ (last'.op \in {"set", "setShared"} /\ steps' = steps + 1 /\ last'.ok) =>
            LET d == definitions'[last'.id]
            IN  /\ d = Len(defs')
                /\ d > Len(defs)
                /\ defs'[d].labels = Attached(last'.configurators)
                /\ defs'[d].raw = last'.arg
                /\ closures'[defs'[d].resolve].def = d
                /\ closures'[defs'[d].resolve].n = 2
                /\ closures'[defs'[d].resolve].result = Undefined ]_vars

\* a get resolves the Definition registered last under the id: it calls the
\* resolve function built from the raw specification of that Definition,
\* runs the label callbacks of that Definition only, and an object it
\* returns is neither the raw object of, nor an object returned for, another
\* Definition
C13_NewOnly ==
    \A d \in Handles :
        GotDef(d) =>
            /\ d = definitions[last.id]
            /\ closures[defs[d].resolve].def = d
            /\ closures[defs[d].resolve].target = defs[d].raw
            /\ \A k \in 1..Len(last.trace) :
                  /\ last.trace[k][1] = d
                  /\ last.trace[k][2] \in Range(defs[d].labels)
            /\ \A d0 \in Handles \ {d} :
                  last.val.t = "ref" =>
                      /\ last.val # defs[d0].raw
                      /\ last.val \notin Range(hist[d0].rets)

\* C13: after set or setShared is called on an already registered id,
\* get(id) is determined by the new specification only: neither the
\* memoized value of a replaced shared Definition nor the labels attached to
\* the replaced Definition carry over to later get calls.
C13_ReplacedForGood == C13_FreshDefinition /\ []C13_NewOnly

\* a shared service was resolved, its id was registered again, and get has
\* returned a value for the new Definition
C13_Witness ==
    \E d0, d \in Handles :
        /\ d0 < d
        /\ defs[d0].ID = defs[d].ID
        /\ defs[d0].shared
        /\ hist[d0].rets # <<>>
        /\ GotDef(d)
        /\ last.ok

----------------------------------------------------------------------------
(* C14 *)

\* d is a Definition of a factory function whose argument is a Definition
FactoryOfDefinition(d) ==
    /\ defs[d].raw.t = "factory"
    /\ defs[d].args[1].t = "definition"

\* C14, as claimed: no registration operation (create, set, setShared,
\* setRaw) invokes a factory function, a resolver or a label callback; they
\* run only during get or a call of a resolver obtained from getResolver.
\* For a Definition built with create whose argument is another Definition,
\* the argument is resolved when the factory is invoked: the get that
\* invokes the factory calls the resolver of the argument (a third frame,
\* after those of the resolve function and of the factory).
C14_DeferredConstruction ==
    /\ last.op \in {"create", "set", "setShared", "setRaw"} =>
          last.deepest = 0 /\ last.trace = <<>>
    /\ \A d \in Handles :
          (GotDef(d) /\ last.ok /\ FactoryOfDefinition(d)) => last.deepest >= 3

----------------------------------------------------------------------------
(* C15 *)

\* the sortOptions object overTags was given, an array read as
\* [field, order]
OptionsGiven(so) ==
    IF so.k = "object" THEN so.o
    ELSE IF Len(so.a) >= 2 THEN [field |-> so.a[1], order |-> so.a[2]]
    ELSE [field |-> so.a[1]]

\* The orders, among those overTags is given here, that are malformed, as
\* JavaScript reads them: the numbers 0 and 2; the strings that are no
\* numeral, 'x' and '1x'; the strings that stand for zero, '' and
\* 2.47032822920623272088284396434110001e-324, which is below half
\* the least double and so rounds to 0; and the numerals beyond 1, '1e1' and
\* '1.0000000000000002', which rounds to the double after 1.
MalformedOrders ==
    {Num(0), Num(2), Str(<<"x">>), Str(<<"1", "x">>), Str(<<>>),
     Str(<<"2", ".", "4", "7", "0", "3", "2", "8", "2", "2", "9", "2", "0", "6",
         "2", "3", "2", "7", "2", "0", "8", "8", "2", "8", "4", "3", "9", "6",
         "4", "3", "4", "1", "1", "0", "0", "0", "1", "e", "-", "3", "2", "4">>),
     Str(<<"1", "e", "1">>),
     Str(<<"1", ".", "0", "0", "0", "0", "0", "0", "0", "0", "0", "0", "0", "0",
         "0", "0", "0", "2">>)}

\* sortOptions that lack the field or the order, whose field is no
\* non-empty string, whose order is malformed, or that have another key
Malformed(so) ==
    /\ so.k # "none"
    /\ LET o == OptionsGiven(so)
       IN  \/ "field" \notin DOMAIN o
           \/ "order" \notin DOMAIN o
           \/ o.field.k # "string"
           \/ o.field = Str("")
           \/ o.order \in MalformedOrders
           \/ DOMAIN o # {"field", "order"}

----------------------------------------------------------------------------
(* C16 *)

\* C16, as claimed: a registered Definition's resolution is memoized if and
\* only if its shared flag is true: whenever the flag is true, the label
\* callbacks have run at most once and every get has returned the identical
\* instance, also when the flag was set through the setter by a configurator
\* passed to set; and while the flag is false every get runs the resolver
\* again, so two gets of a factory's or an object's service return distinct
\* instances.
C16_MemoizedIffShared ==
    \A d \in Handles :
        /\ defs[d].shared =>
              /\ \A l \in LabelNames : hist[d].called[l] <= 1
              /\ \A i, j \in 1..Len(hist[d].rets) : hist[d].rets[i] = hist[d].rets[j]
        /\ (~defs[d].shared /\ defs[d].raw.t \in {"ref", "factory"}) =>
              \A i, j \in 1..Len(hist[d].rets) :
                  i # j => hist[d].rets[i] # hist[d].rets[j]

----------------------------------------------------------------------------
(* C17 *)

\* a get of a transient service runs the callback of every label attached
\* at that moment, those attached after the first resolution too; it stops
\* only by raising 'label not defined' at a label without a callback
C17_TransientRunsLate ==
    \A d \in Handles :
        (GotDef(d) /\ ~defs[d].shared) =>
            \A l \in Range(defs[d].labels) :
                \/ <<d, l>> \in Range(last.trace)
                \/ ~last.ok /\ last.err = LabelNotDefined

\* a get of a shared service that has already been resolved runs no label
\* callback and returns the memoized value, which it leaves untouched
C17_SharedUntouched ==
    [][ \A d \in Handles :
            (GotDef(d)' /\ steps' = steps + 1 /\ defs[d].shared /\ hist[d].rets # <<>>) =>
                /\ last'.ok
                /\ last'.trace = <<>>
                /\ last'.val = hist[d].rets[1]
                /\ heap' = heap
                /\ hist'[d].called = hist[d].called ]_vars

\* C17: a label attached with addLabel after a service's first resolution
\* runs on every later get of a transient service, and never runs for a
\* shared service that has already been resolved (the memoized value is
\* returned untouched).
C17_LabelAfterResolution == []C17_TransientRunsLate /\ C17_SharedUntouched

\* a transient service was resolved, a label was attached to it afterwards,
\* and the second get has run the callback of that label
C17_Witness ==
    \E d \in Handles :
        /\ GotDef(d)
        /\ ~defs[d].shared
        /\ last.ok
        /\ hist[d].gets = 2
        /\ Len(hist[d].rets) = 2
        /\ \E l \in Range(defs[d].labels) \ Range(hist[d].first) :
              <<d, l>> \in Range(last.trace)

----------------------------------------------------------------------------
(* C18 *)

\* the pairs of a visit whose sort key is k
WithKey(visited, k) == SelectSeq(visited, LAMBDA pair : Key(pair) = k)

\* C18: sorted overTags is stable: the pairs whose sort-field values are
\* equal (a missing field counting as 0) are visited in the same relative
\* order as in the unsorted iteration, for order = -1 and for order = 1.
C18_StableSort ==
    SortedVisit =>
        LET log   == SelectSeq(tagHist, LAMBDA e : e.tag.name = last.id)
            plain == Grouped(log, FirstSeen(log, {}))
        IN  /\ OrderGiven \in {-1, 1}
            /\ \A k \in FieldVals \cup {0} : WithKey(last.val, k) = WithKey(plain, k)

\* a sorted visit with order = -1 of three pairs: two of different services
\* with the same key, which keep their places relative to each other, and
\* one of a greater key stored after them and visited first
C18_Witness ==
    /\ SortedVisit
    /\ OrderGiven = -1
    /\ Len(last.val) = 3
    /\ Len(tagHist) = 3
    /\ last.val[1] = <<tagHist[3].service, tagHist[3].tag>>
    /\ last.val[2] = <<tagHist[1].service, tagHist[1].tag>>
    /\ last.val[3] = <<tagHist[2].service, tagHist[2].tag>>
    /\ tagHist[1].service # tagHist[2].service
    /\ Key(last.val[2]) = Key(last.val[3])
    /\ Key(last.val[1]) > Key(last.val[2])

----------------------------------------------------------------------------
(* C19 *)

\* the last operation was a get during which a label callback called get
\* for the service being resolved
ReenteredGet ==
    /\ last.op = "get"
    /\ \E i \in 1..Len(last.trace) : labels[last.trace[i][2]] = Reentrant

\* C19: if a label callback attached to service id calls get(id) while id
\* is being resolved, resolution never completes normally: the nesting of
\* get(id) grows until the stack limit, for shared and for transient
\* services alike, and no nested get(id) returns a value.
C19_ReentrantNeverCompletes ==
    ReenteredGet =>
        /\ ~last.ok
        /\ last.err = StackOverflow
        /\ last.deepest >= StackLimit
        /\ last.nested = <<>>

\* the same for transient services only
C19_TransientOverflows ==
    (ReenteredGet /\ ~defs[last.arg].shared) =>
        /\ ~last.ok
        /\ last.err = StackOverflow
        /\ last.deepest >= StackLimit
        /\ last.nested = <<>>

\* what the code does for a shared service: the nested get returns
\* undefined at once, and the outer get goes on to the next label (it
\* completes with the instance unless a later label has no callback); the
\* stack holds four frames at the most (the resolve function, the two
\* callbacks, the resolve function again)
C19_SharedReturnsUndefined ==
    (ReenteredGet /\ defs[last.arg].shared) =>
        /\ last.ok \/ last.err = LabelNotDefined
        /\ last.deepest = 4
        /\ Len(last.nested) >= 1
        /\ \A i \in 1..Len(last.nested) : last.nested[i] = Undefined

----------------------------------------------------------------------------
(* C20 *)

\* v is what the specification of Definition d resolves to: its value, a
\* copy of its object (or the object), or the result [this, ...args] of its
\* factory called with the context of d
ResolvesTo(d, v) ==
    CASE defs[d].raw.t = "prim" -> v = defs[d].raw
      [] defs[d].raw.t = "ref" ->
            /\ v.t = "ref"
            /\ (heap[v.v].child = 0) = (heap[defs[d].raw.v].child = 0)
      [] defs[d].raw.t = "factory" ->
            /\ v.t = "ref"
            /\ Len(heap[v.v].items) >= 1
            /\ heap[v.v].items[1] = defs[d].context
      [] defs[d].raw.t = "container" -> v.t = "container"
      [] OTHER -> TRUE

\* C20, as claimed: after set(id, D), get(id) returns what D's own
\* specification resolves to (its value, or its factory's result with D's
\* context and args), whether D was compiled (registered) before being
\* wrapped or was only built with create.
C20_CollapsesOneLevel ==
    \A d \in Handles :
        (GotDef(d) /\ last.ok /\ hist[d].of # 0) => ResolvesTo(hist[d].of, last.val)

----------------------------------------------------------------------------
(* C22 *)

\* the position of the first malformed specification, 0 when there is none
FirstMalformed(specs) ==
    IF \E k \in 1..Len(specs) : ~WellFormed(specs[k])
    THEN CHOOSE k \in 1..Len(specs) :
             ~WellFormed(specs[k]) /\ \A j \in 1..(k - 1) : WellFormed(specs[j])
    ELSE 0

\* C22: tag(id, t1, ..., tn) processes its specs left to right and is not
\* atomic: if tk is the first malformed spec, the call raises the
\* invalid-tag error after having appended exactly the payloads of
\* t1..t(k-1), and appends none of tk..tn.
C22_AppendsUpToMalformed ==
    [][ (last'.op = "tag" /\ FirstMalformed(last'.arg) # 0) =>
            LET k    == FirstMalformed(last'.arg)
                done == [i \in 1..(k - 1) |-> PayloadOf(last'.arg[i])]
            IN  /\ ~last'.ok
                /\ last'.err = InvalidTag
                /\ \A n \in TagNames, s \in Ids :
                      ListFor(tags', n, s) =
                          IF s = last'.id
                          THEN ListFor(tags, n, s)
                               \o SelectSeq(done, LAMBDA p : p.name = n)
                          ELSE ListFor(tags, n, s)
                /\ \A n \in TagNames :
                      Len(tags'[n]) <= Len(tags[n]) + 1 ]_vars

\* tag was called with a well-formed spec followed by a malformed one: it
\* raised the invalid-tag error and the payload of the first spec is stored
C22_Witness ==
    /\ last.op = "tag"
    /\ Len(last.arg) = 2
    /\ FirstMalformed(last.arg) = 2
    /\ ~last.ok
    /\ last.err = InvalidTag
    /\ tagHist # <<>>
    /\ tagHist[Len(tagHist)] = [service |-> last.id, tag |-> PayloadOf(last.arg[1])]
    /\ ListFor(tags, PayloadOf(last.arg[1]).name, last.id) # <<>>

----------------------------------------------------------------------------
(* C21 *)

\* C21: registering a service never replaces or disables a container
\* operation: after set(id, spec) with any string id, the names of
\* operations such as 'get' or 'set' included, get(j) still returns the
\* resolved value of every registered id j (whose specification is not
\* the container itself).
C21_OperationsKept ==
    (last.op = "get" /\ last.arg # 0 /\ defs[last.arg].raw # Container) =>
        /\ last.ok
        /\ ResolvesTo(last.arg, last.val)

\* the same while no service is registered under 'get'
C21_UnlessGetIsRegistered ==
    (last.op = "get" /\ last.arg # 0 /\ defs[last.arg].raw # Container
        /\ "get" \notin Range(accessors)) =>
        /\ last.ok
        /\ ResolvesTo(last.arg, last.val)

\* a service whose specification is the container itself: get copies the
\* container, which exhausts the call stack: the copy reads the accessor
\* property of the service and so resolves it again, unless the deep clone
\* of _definitions has overflowed before
C21_ContainerNeverCopied ==
    (last.op = "get" /\ last.arg # 0 /\ defs[last.arg].raw = Container) =>
        /\ ~last.ok
        /\ last.err = StackOverflow
        /\ (deepClone /\ cloneMapStack = "own") =>
               IF "get" \in Range(accessors) THEN last.deepest >= StackLimit
               ELSE last.deepest = 2
        /\ ~(deepClone /\ cloneMapStack = "own") => last.deepest >= StackLimit

\* once a service is registered under 'get', no get completes, and once
\* one is registered under 'set', no set does (a set fails for no other
\* reason but a malformed tag given to a configurator)
C21_OperationsShadowed ==
    /\ (last.op = "get" /\ "get" \in Range(accessors)) =>
          ~last.ok /\ last.err = StackOverflow /\ last.deepest >= StackLimit
    /\ (last.op = "set" /\ ~last.ok /\ last.err # InvalidTag) =>
          /\ "set" \in Range(accessors)
          /\ last.err = IF \/ "get" \in Range(accessors)
                           \/ defs[definitions["set"]].raw = Container
                        THEN StackOverflow ELSE NotAFunction

====
